---- MODULE Spec2Model ----
(***************************************************************************)
(* A model of the studentrptcard application: the Score table and its      *)
(* derived values (models.py), the views that write scores and the ranking *)
(* functions used for report cards (views.py).                             *)
(*                                                                         *)
(* Decimal values (DecimalField(max_digits=5, decimal_places=2)) are       *)
(* modelled as integers counting hundredths: 79.99 is 7999.                *)
(***************************************************************************)
EXTENDS Integers, Sequences, FiniteSets, TLC

VARIABLES
    students,               \* the Student table: rows [id, grade_level, current_academic_year]
    scores,                 \* the Score table: rows [id, student, subject, term, academic_year, class_score, exam_score]
    current_academic_year,  \* AcademicYear.objects.filter(is_current=True).first(), or None
    current_term,           \* Term.objects.filter(is_current=True).first(), or None
    request,                \* the parameters of the last request or call
    response,               \* the outcome of the last request or call
    scores_queryset,        \* the rows last handed to calculate_subject_positions
    subject_positions,      \* its result: (student, subject) -> position
    students_in_class,      \* the roster last handed to calculate_class_positions
    student_averages,       \* its local student_averages: student -> average
    class_positions,        \* its result: student -> position
    ops,                    \* number of requests served so far, in the runs that bound them
    report_card_remarks,    \* the ReportCardRemarks table: rows [student, term, academic_year, ...]
    frame                   \* the local variables of a calculate_class_positions call in progress

vars == <<students, scores, current_academic_year, current_term, request, response,
          scores_queryset, subject_positions, students_in_class, student_averages,
          class_positions, ops, report_card_remarks, frame>>

None == "None"

----------------------------------------------------------------------------
(* Decimal scale and the fixed tables of the school.                       *)

\* decimal_places=2: one unit of the model is 0.01
DecimalPlaces == 2
Scale == 10 ^ DecimalPlaces

\* max_digits of a component score
MaxDigits == 5

\* MinValueValidator(0), MaxValueValidator(50) on class_score and exam_score
MinScore == 0
MaxScore == 50

AcademicYears == {"2023/2024", "2024/2025"}

\* Term rows: each Term belongs to one AcademicYear (Term.academic_year)
Terms == {"T1", "T2"}
term_academic_year == [t \in Terms |-> IF t = "T1" THEN "2023/2024" ELSE "2024/2025"]

GradeLevels == {"Grade 1A", "Grade 2A"}

\* Subject rows with their grade_levels (ManyToManyField)
Subjects == {"English", "Math"}
subject_grade_levels ==
    [s \in Subjects |-> IF s = "Math" THEN {"Grade 1A", "Grade 2A"} ELSE {"Grade 1A"}]

----------------------------------------------------------------------------
(* Score: derived properties (models.py).                                  *)

\* The mutant of total_score: the sum clamped to 100, as a percentage would be.
total_score_clamped(score) ==
    LET sum == score.class_score + score.exam_score
    IN  IF sum > 100 * Scale THEN 100 * Scale ELSE IF sum < 0 THEN 0 ELSE sum

\* Score.total_score
total_score(score) == score.class_score + score.exam_score

\* The thresholds of Score.grade
GradeA == 80
GradeB == 70
GradeC == 60
GradeD == 50

\* The mutant of grade_of: bands exclusive at their lower edge (> for >=).
grade_of_exclusive(total) ==
    IF total > GradeA * Scale THEN "A"
    ELSE IF total > GradeB * Scale THEN "B"
    ELSE IF total > GradeC * Scale THEN "C"
    ELSE IF total > GradeD * Scale THEN "D"
    ELSE "F"

\* The if/elif chain of Score.grade on a total
grade_of(total) ==
    IF total >= GradeA * Scale THEN "A"
    ELSE IF total >= GradeB * Scale THEN "B"
    ELSE IF total >= GradeC * Scale THEN "C"
    ELSE IF total >= GradeD * Scale THEN "D"
    ELSE "F"

\* Score.grade
grade(score) == grade_of(total_score(score))

\* The mutant of remarks_of: the remark of D given to F as well.
remarks_of_pass_for_fail(g) ==
    IF g = "A" THEN "Excellent"
    ELSE IF g = "B" THEN "Very Good"
    ELSE IF g = "C" THEN "Good"
    ELSE "Pass"

\* The if/elif chain of Score.remarks on a grade
remarks_of(g) ==
    IF g = "A" THEN "Excellent"
    ELSE IF g = "B" THEN "Very Good"
    ELSE IF g = "C" THEN "Good"
    ELSE IF g = "D" THEN "Pass"
    ELSE "Fail"

\* Score.remarks
remarks(score) == remarks_of(grade(score))

----------------------------------------------------------------------------
(* Querysets.                                                              *)

\* Student.objects.get(id=...)
student_row(id) == CHOOSE st \in students : st.id = id

\* Score.objects.filter(academic_year=..., term=..., student__grade_level=...)
all_scores_in_grade_term(academic_year, term, grade_level) ==
    {s \in scores : /\ s.academic_year = academic_year
                    /\ s.term = term
                    /\ \E st \in students : st.id = s.student /\ st.grade_level = grade_level}

\* The mutant of roster: every student of the grade level, whatever academic
\* year they are enrolled in.
roster_of_grade_level(grade_level, academic_year) ==
    {st.id : st \in {x \in students : x.grade_level = grade_level}}

\* Student.objects.filter(grade_level=..., current_academic_year=...)
roster(grade_level, academic_year) ==
    {st.id : st \in {x \in students : /\ x.grade_level = grade_level
                                       /\ x.current_academic_year = academic_year}}

\* Score.objects.filter(student=..., academic_year=..., term=...)
student_scores(student, academic_year, term) ==
    {s \in scores : s.student = student /\ s.academic_year = academic_year /\ s.term = term}

\* ORDER BY class_score DESC, exam_score DESC: x must come before y
precedes(x, y) ==
    \/ x.class_score > y.class_score
    \/ x.class_score = y.class_score /\ x.exam_score > y.exam_score

\* .order_by('-class_score', '-exam_score'): every sequence the database may
\* return; rows equal in both columns come in any order.
RECURSIVE order_by_scores(_)
order_by_scores(rows) ==
    IF rows = {} THEN {<<>>}
    ELSE UNION {{<<x>> \o rest : rest \in order_by_scores(rows \ {x})} :
                x \in {r \in rows : \A other \in rows : ~precedes(other, r)}}

\* Every order in which a queryset of students may be iterated (the names that
\* order it are not modelled).
RECURSIVE any_order(_)
any_order(set) ==
    IF set = {} THEN {<<>>}
    ELSE UNION {{<<x>> \o rest : rest \in any_order(set \ {x})} : x \in set}

----------------------------------------------------------------------------
(* Ranking (views.py).  An average is kept as the exact quotient num/den;  *)
(* Decimal division rounds it to 28 significant digits, which neither      *)
(* reorders nor merges two quotients of the sizes that occur here.         *)

\* The mutant of less_than: a <= b for a < b.
less_than_or_equal(a, b) == a.num * b.den <= b.num * a.den

\* Decimal comparison a < b of two quotients with positive denominators
less_than(a, b) == a.num * b.den < b.num * a.den

\* The mutant of insert_pair: the sort ascending (reverse=True left out).
insert_pair_ascending(acc, x) ==
    LET higher == {j \in 1..Len(acc) : less_than(x[2], acc[j][2])}
        k == IF higher = {} THEN Len(acc) + 1 ELSE CHOOSE j \in higher : \A l \in higher : j <= l
    IN  SubSeq(acc, 1, k - 1) \o <<x>> \o SubSeq(acc, k, Len(acc))

\* One step of a stable descending sort: the pair x = <<item, key>> goes
\* behind every pair whose key is not lower than its own.
insert_pair(acc, x) ==
    LET lower == {j \in 1..Len(acc) : less_than(acc[j][2], x[2])}
        k == IF lower = {} THEN Len(acc) + 1 ELSE CHOOSE j \in lower : \A l \in lower : j <= l
    IN  SubSeq(acc, 1, k - 1) \o <<x>> \o SubSeq(acc, k, Len(acc))

RECURSIVE sort_pairs(_, _, _, _)
sort_pairs(items, keys, i, acc) ==
    IF i > Len(items) THEN acc
    ELSE sort_pairs(items, keys, i + 1, insert_pair(acc, <<items[i], keys[i]>>))

\* sorted(items, key=..., reverse=True): a stable sort, descending by key.
\* keys[i] is the key of items[i].
sorted_reverse(items, keys) ==
    LET pairs == sort_pairs(items, keys, 1, <<>>)
    IN  [p \in 1..Len(items) |-> pairs[p][1]]

\* The mutant of next_rank: the rank after a tied block grows by one.
next_rank_dense(i, current_rank, lower) ==
    IF i > 1 /\ lower THEN current_rank + 1 ELSE current_rank

\* The mutant of next_rank: every item ranked by its place in the sorted list.
next_rank_ordinal(i, current_rank, lower) == i

\* The rank update of both ranking loops, for the 1-based index i:
\*     if i > 0 and value < previous value: current_rank = i + 1
next_rank(i, current_rank, lower) ==
    IF i > 1 /\ lower THEN i ELSE current_rank

\* The key of sorted() in calculate_subject_positions: x.total_score
score_key(score) == [num |-> total_score(score), den |-> 1]

\* The mutant of rank_scores: the positions keyed by the student alone.
RECURSIVE rank_scores_by_student(_, _, _, _)
rank_scores_by_student(ranked_scores, i, current_rank, positions) ==
    IF i > Len(ranked_scores) THEN positions
    ELSE LET score_obj == ranked_scores[i]
             lower == i > 1 /\ total_score(score_obj) < total_score(ranked_scores[i-1])
             rank == IF lower THEN i ELSE current_rank
         IN  rank_scores_by_student(ranked_scores, i + 1, rank,
                                    (<<score_obj.student>> :> rank) @@ positions)

\* The loop over enumerate(ranked_scores) of calculate_subject_positions
RECURSIVE rank_scores(_, _, _, _)
rank_scores(ranked_scores, i, current_rank, positions) ==
    IF i > Len(ranked_scores) THEN positions
    ELSE LET score_obj == ranked_scores[i]
             lower == i > 1 /\ total_score(score_obj) < total_score(ranked_scores[i-1])
             rank == next_rank(i, current_rank, lower)
         IN  rank_scores(ranked_scores, i + 1, rank,
                         (<<score_obj.student, score_obj.subject>> :> rank) @@ positions)

\* scores_queryset.filter(subject__id=subject_id)
subject_scores_of(queryset, subject_id) == {s \in queryset : s.subject = subject_id}

\* calculate_subject_positions(scores_queryset); db_order[subject_id] is the
\* sequence the database returned for that subject's ordered query.
RECURSIVE subject_loop(_, _, _)
subject_loop(subject_ids, db_order, positions) ==
    IF subject_ids = {} THEN positions
    ELSE LET subject_id == CHOOSE s \in subject_ids : TRUE
             subject_scores == db_order[subject_id]
             ranked_scores == sorted_reverse(subject_scores,
                                  [i \in 1..Len(subject_scores) |-> score_key(subject_scores[i])])
         IN  subject_loop(subject_ids \ {subject_id}, db_order,
                          rank_scores(ranked_scores, 1, 1, positions))

\* scores_queryset.values_list('subject', flat=True).distinct()
subject_ids_of(queryset) == {s.subject : s \in queryset}

\* The orders the database may return for the per-subject queries: one
\* sequence per subject
RECURSIVE db_orders_of(_, _)
db_orders_of(queryset, subject_ids) ==
    IF subject_ids = {} THEN {<<>>}
    ELSE LET sid == CHOOSE s \in subject_ids : TRUE
         IN  {(sid :> order) @@ others :
                 order \in order_by_scores(subject_scores_of(queryset, sid)),
                 others \in db_orders_of(queryset, subject_ids \ {sid})}

db_orders(queryset) == db_orders_of(queryset, subject_ids_of(queryset))

\* The mutant of calculate_subject_positions: an 'N/A' entry returned for an
\* input without rows.
calculate_subject_positions_or_na(queryset, db_order) ==
    IF queryset = {} THEN (<<"N/A", "N/A">> :> 1)
    ELSE subject_loop(subject_ids_of(queryset), db_order, <<>>)

calculate_subject_positions(queryset, db_order) ==
    subject_loop(subject_ids_of(queryset), db_order, <<>>)

\* sum(s.total_score for s in student_scores)
RECURSIVE sum_total_scores(_)
sum_total_scores(rows) ==
    IF rows = {} THEN 0
    ELSE LET s == CHOOSE r \in rows : TRUE
         IN  total_score(s) + sum_total_scores(rows \ {s})

\* The mutant of average_of: the sum of the totals instead of their mean.
average_of_sum(rows) ==
    IF rows # {} THEN [num |-> sum_total_scores(rows), den |-> 1]
    ELSE [num |-> 0, den |-> 1]

\* The mutant of average_of: students without scores get the lowest value
\* instead of 0 (as if they were put last).
average_of_last(rows) ==
    IF rows # {} THEN [num |-> sum_total_scores(rows), den |-> Cardinality(rows)]
    ELSE [num |-> -1, den |-> 1]

\* The body of the first loop of calculate_class_positions for one student:
\* total_scores_sum / student_scores.count(), or 0 without scores
average_of(rows) ==
    IF rows # {} THEN [num |-> sum_total_scores(rows), den |-> Cardinality(rows)]
    ELSE [num |-> 0, den |-> 1]

\* student_averages of calculate_class_positions
averages(roster_order, academic_year, term) ==
    [i \in 1..Len(roster_order) |->
        average_of(student_scores(roster_order[i], academic_year, term))]

\* The loop over enumerate(sorted_students_by_avg) of calculate_class_positions;
\* its items are (student_id, avg_score) pairs
RECURSIVE rank_students(_, _, _, _)
rank_students(sorted_students_by_avg, i, current_rank, positions) ==
    IF i > Len(sorted_students_by_avg) THEN positions
    ELSE LET item == sorted_students_by_avg[i]
             lower == i > 1 /\ less_than(item[2], sorted_students_by_avg[i-1][2])
             rank == next_rank(i, current_rank, lower)
         IN  rank_students(sorted_students_by_avg, i + 1, rank, (item[1] :> rank) @@ positions)

\* The mutant of calculate_class_positions: the ranks counted from 0
\* (current_rank = 0 before the loop).
calculate_class_positions_from_zero(roster_order, academic_year, term) ==
    LET avgs == averages(roster_order, academic_year, term)
        items == [i \in 1..Len(roster_order) |-> <<roster_order[i], avgs[i]>>]
    IN  rank_students(sorted_reverse(items, avgs), 1, 0, <<>>)

\* calculate_class_positions(students_in_class, academic_year, term);
\* roster_order is the order in which students_in_class is iterated.
calculate_class_positions(roster_order, academic_year, term) ==
    LET avgs == averages(roster_order, academic_year, term)
        items == [i \in 1..Len(roster_order) |-> <<roster_order[i], avgs[i]>>]
    IN  rank_students(sorted_reverse(items, avgs), 1, 1, <<>>)

----------------------------------------------------------------------------
(* Rows and requests the checked runs start from.                          *)

Student(id, grade_level, academic_year) ==
    [id |-> id, grade_level |-> grade_level, current_academic_year |-> academic_year]

Score(id, student, subject, term, academic_year, class_score, exam_score) ==
    [id |-> id, student |-> student, subject |-> subject, term |-> term,
     academic_year |-> academic_year, class_score |-> class_score, exam_score |-> exam_score]

\* A pair of component scores, in units of 0.01
Marks(class_score, exam_score) == [class_score |-> class_score, exam_score |-> exam_score]

NoRequest == [view |-> None]
NoResponse == [view |-> None, status |-> None, returned |-> {}]

\* No call of calculate_class_positions is in progress
NoFrame == [pc |-> None]

\* Nothing has been ranked yet
NotRanked ==
    /\ scores_queryset = {}
    /\ subject_positions = <<>>
    /\ students_in_class = {}
    /\ student_averages = <<>>
    /\ class_positions = <<>>
    /\ frame = NoFrame

----------------------------------------------------------------------------
(* Specification SpecAgg: the derived values of Score rows, as the admin   *)
(* changelist shows them (list_display of ScoreAdmin).                     *)

\* Component values around every grade threshold, and two outside [0, 50]
ComponentValues ==
    {-100, 0, 999, 1000, 1999, 2000, 2999, 3000, 3999, 4000, 4999, 5000, 7500}

InitAgg ==
    /\ students = {Student("A", "Grade 1A", "2024/2025")}
    /\ \E c1 \in ComponentValues, e1 \in ComponentValues, e2 \in {999, 1000, 3999, 4000, 5000} :
          scores = {Score(1, "A", "Math", "T2", "2024/2025", c1, e1),
                    Score(2, "A", "English", "T2", "2024/2025", 4000, e2)}
    /\ current_academic_year = "2024/2025"
    /\ current_term = "T2"
    /\ request = NoRequest
    /\ response = NoResponse
    /\ NotRanked
    /\ ops = 0
    /\ report_card_remarks = {}

\* One line of the changelist: the row with total_score, grade and remarks
list_display(score) ==
    [score |-> score, total_score |-> total_score(score),
     grade |-> grade(score), remarks |-> remarks(score)]

\* The changelist of ScoreAdmin
ScoreAdminChangelist ==
    /\ request' = [view |-> "ScoreAdmin"]
    /\ response' = [view |-> "ScoreAdmin", status |-> "rendered", returned |-> {},
                    rows |-> {list_display(s) : s \in scores}]
    /\ UNCHANGED <<students, scores, current_academic_year, current_term, scores_queryset,
                   subject_positions, students_in_class, student_averages, class_positions, ops,
                   report_card_remarks, frame>>

NextAgg == ScoreAdminChangelist

SpecAgg == InitAgg /\ [][NextAgg]_vars

----------------------------------------------------------------------------
(* Specification SpecRank: the two ranking functions applied to stored     *)
(* scores, with the arguments the report views give them.                  *)

MathMarks == {Marks(0, 0), Marks(4500, 4500), Marks(5000, 4000)}
EnglishMarks == {Marks(3500, 3500), Marks(4000, 4000)}

\* The choices for one row: one of the marks, or no row
OneOrNone(marks) == {{}} \cup {{m} : m \in marks}

\* Three students of Grade 1A with any of the marks above or no row, per
\* subject; a row of another term and a student of another grade level.
ClassOfThree ==
    /\ students = {Student("A", "Grade 1A", "2024/2025"), Student("B", "Grade 1A", "2024/2025"),
                   Student("C", "Grade 1A", "2024/2025"), Student("D", "Grade 2A", "2024/2025")}
    /\ \E math \in [{"A", "B", "C"} -> OneOrNone(MathMarks)],
          english \in [{"A", "B", "C"} -> OneOrNone(EnglishMarks)] :
          scores =
            {Score(1, "A", "Math", "T1", "2023/2024", 5000, 5000),
             Score(2, "D", "Math", "T2", "2024/2025", 5000, 5000)}
            \cup UNION {{Score(10 + i, <<"A", "B", "C">>[i], "Math", "T2", "2024/2025",
                               m.class_score, m.exam_score) : m \in math[<<"A", "B", "C">>[i]]} :
                        i \in 1..3}
            \cup UNION {{Score(20 + i, <<"A", "B", "C">>[i], "English", "T2", "2024/2025",
                               m.class_score, m.exam_score) : m \in english[<<"A", "B", "C">>[i]]} :
                        i \in 1..3}

\* Six students of Grade 1A, each with a Math row: totals 90, 80 or 70; three
\* of them are not enrolled in the year of the rows
ClassOfSix ==
    /\ students = {Student(id, "Grade 1A", "2024/2025") : id \in {"A", "B", "C"}}
                  \cup {Student(id, "Grade 1A", "2023/2024") : id \in {"D", "E", "F"}}
    /\ \E top \in [{"A", "B", "C"} -> {3500, 4000, 4500}], rest \in [{"D", "E", "F"} -> {3500, 4000}] :
          scores =
            {Score(10 + i, <<"A", "B", "C">>[i], "Math", "T2", "2024/2025",
                   top[<<"A", "B", "C">>[i]], top[<<"A", "B", "C">>[i]]) : i \in 1..3}
            \cup {Score(13 + i, <<"D", "E", "F">>[i], "Math", "T2", "2024/2025",
                   rest[<<"D", "E", "F">>[i]], rest[<<"D", "E", "F">>[i]]) : i \in 1..3}

\* The URL parameters of a report: academic year, term, grade level
ReportRequests ==
    {[view |-> "report", academic_year |-> "2024/2025", term |-> "T2", grade_level |-> "Grade 1A"],
     [view |-> "report", academic_year |-> "2024/2025", term |-> "T2", grade_level |-> "Grade 2A"],
     [view |-> "report", academic_year |-> "2023/2024", term |-> "T1", grade_level |-> "Grade 1A"],
     [view |-> "report", academic_year |-> "2023/2024", term |-> "T2", grade_level |-> "Grade 1A"]}

InitRank ==
    /\ ClassOfThree \/ ClassOfSix
    /\ current_academic_year = "2024/2025"
    /\ current_term = "T2"
    /\ request \in ReportRequests
    /\ response = NoResponse
    /\ NotRanked
    /\ ops = 0
    /\ report_card_remarks = {}

\* subject_positions = calculate_subject_positions(all_scores_in_grade_term)
CalculateSubjectPositions ==
    LET queryset == all_scores_in_grade_term(request.academic_year, request.term, request.grade_level)
    IN  \E db_order \in db_orders(queryset) :
          /\ scores_queryset' = queryset
          /\ subject_positions' = calculate_subject_positions(queryset, db_order)
          /\ response' = [response EXCEPT !.view = "report",
                             !.returned = @ \cup {"calculate_subject_positions"}]
          /\ UNCHANGED <<students, scores, current_academic_year, current_term, request,
                         students_in_class, student_averages, class_positions, ops,
                         report_card_remarks, frame>>

\* class_positions = calculate_class_positions(students_in_class, academic_year, term)
CalculateClassPositions ==
    LET in_class == roster(request.grade_level, request.academic_year)
    IN  \E roster_order \in any_order(in_class) :
          /\ students_in_class' = in_class
          /\ student_averages' =
                [st \in in_class |->
                    average_of(student_scores(st, request.academic_year, request.term))]
          /\ class_positions' =
                calculate_class_positions(roster_order, request.academic_year, request.term)
          /\ response' = [response EXCEPT !.view = "report",
                             !.returned = @ \cup {"calculate_class_positions"}]
          /\ UNCHANGED <<students, scores, current_academic_year, current_term, request,
                         scores_queryset, subject_positions, ops, report_card_remarks, frame>>

NextRank == CalculateSubjectPositions \/ CalculateClassPositions

SpecRank == InitRank /\ [][NextRank]_vars

----------------------------------------------------------------------------
(* Specification SpecOutliers: the ranking functions on rows whose         *)
(* components lie outside [0, 50] as well, and on a class of one student   *)
(* with one row.                                                           *)

\* Component values below 0, within [0, 50] and above 50
OutlierClassScores == {-5000, -100, 0, 2500, 7500}
OutlierExamScores == {-100, 0, 7500}

\* A, B and C of Grade 1A: A with a Math row of any of the values and perhaps
\* an English row, B with a Math row or none, C without rows; D alone in
\* Grade 2A with one row
InitOutliers ==
    /\ students = {Student("A", "Grade 1A", "2024/2025"), Student("B", "Grade 1A", "2024/2025"),
                   Student("C", "Grade 1A", "2024/2025"), Student("D", "Grade 2A", "2024/2025")}
    /\ \E a_class \in OutlierClassScores, a_exam \in OutlierExamScores,
          a_english \in OneOrNone({Marks(-5000, 0)}),
          b_math \in OneOrNone({Marks(-100, -100), Marks(0, 0), Marks(7500, 7500)}),
          d_class \in {-100, 0, 7500}, d_exam \in {-100, 5000} :
          scores =
            {Score(1, "A", "Math", "T2", "2024/2025", a_class, a_exam),
             Score(2, "D", "Math", "T2", "2024/2025", d_class, d_exam)}
            \cup {Score(3, "A", "English", "T2", "2024/2025", m.class_score, m.exam_score) :
                    m \in a_english}
            \cup {Score(4, "B", "Math", "T2", "2024/2025", m.class_score, m.exam_score) :
                    m \in b_math}
    /\ current_academic_year = "2024/2025"
    /\ current_term = "T2"
    /\ request \in {r \in ReportRequests : r.academic_year = "2024/2025"}
    /\ response = NoResponse
    /\ NotRanked
    /\ ops = 0
    /\ report_card_remarks = {}

SpecOutliers == InitOutliers /\ [][NextRank]_vars

----------------------------------------------------------------------------
(* Specification SpecRepeat: the ranking functions called again and again  *)
(* on a class with tied totals, the stored rows unchanged between calls.   *)

\* Calls of the ranking functions in one run
MaxCalls == 2

InitRepeat ==
    /\ ClassOfSix
    /\ current_academic_year = "2024/2025"
    /\ current_term = "T2"
    /\ request \in ReportRequests
    /\ response = NoResponse
    /\ NotRanked
    /\ ops = 0
    /\ report_card_remarks = {}

\* One more call of calculate_subject_positions(all_scores_in_grade_term)
CallSubjectPositions ==
    LET queryset == all_scores_in_grade_term(request.academic_year, request.term, request.grade_level)
    IN  \E db_order \in db_orders(queryset) :
          /\ ops < MaxCalls
          /\ ops' = ops + 1
          /\ scores_queryset' = queryset
          /\ subject_positions' = calculate_subject_positions(queryset, db_order)
          /\ response' = [response EXCEPT !.view = "report",
                             !.returned = @ \cup {"calculate_subject_positions"}]
          /\ UNCHANGED <<students, scores, current_academic_year, current_term, request,
                         students_in_class, student_averages, class_positions,
                         report_card_remarks, frame>>

\* One more call of calculate_class_positions(students_in_class, academic_year, term)
CallClassPositions ==
    LET in_class == roster(request.grade_level, request.academic_year)
    IN  \E roster_order \in any_order(in_class) :
          /\ ops < MaxCalls
          /\ ops' = ops + 1
          /\ students_in_class' = in_class
          /\ student_averages' =
                [st \in in_class |->
                    average_of(student_scores(st, request.academic_year, request.term))]
          /\ class_positions' =
                calculate_class_positions(roster_order, request.academic_year, request.term)
          /\ response' = [response EXCEPT !.view = "report",
                             !.returned = @ \cup {"calculate_class_positions"}]
          /\ UNCHANGED <<students, scores, current_academic_year, current_term, request,
                         scores_queryset, subject_positions, report_card_remarks, frame>>

NextRepeat == CallSubjectPositions \/ CallClassPositions

SpecRepeat == InitRepeat /\ [][NextRepeat]_vars

----------------------------------------------------------------------------
(* The views that write scores (views.py).  Every user of the model holds  *)
(* the permissions the decorators ask for.                                 *)

Users == {"admin", "class_teacher", "subject_teacher"}

\* Teacher.class_teacher_of
class_teacher_of == [u \in Users |-> IF u = "class_teacher" THEN "Grade 1A" ELSE None]

\* Teacher.subjects_taught
subjects_taught == [u \in Users |-> IF u = "subject_teacher" THEN {"Math"} ELSE {}]

is_administrator(user) == user = "admin"

is_class_teacher(user) == class_teacher_of[user] # None

is_subject_teacher(user) == subjects_taught[user] # {}

\* MinValueValidator(0) and MaxValueValidator(50) of a component score
valid_score(value) == MinScore * Scale <= value /\ value <= MaxScore * Scale

\* DecimalField(max_digits=5, decimal_places=2): the values a column can hold;
\* the write of any other value is refused (decimal.InvalidOperation)
fits_column(value) == -(10 ^ MaxDigits) < value /\ value < 10 ^ MaxDigits

\* The rows of a table with the key (student, subject, term, academic_year)
rows_with_key(table, student, subject, term, academic_year) ==
    {s \in table : /\ s.student = student /\ s.subject = subject
                   /\ s.term = term /\ s.academic_year = academic_year}

\* The mutant of unique_together: the table without its unique constraint.
unique_together_missing(table, student, subject, term, academic_year) == FALSE

\* unique_together = ('student', 'subject', 'term', 'academic_year'): an INSERT
\* of this key is refused (IntegrityError)
unique_together(table, student, subject, term, academic_year) ==
    rows_with_key(table, student, subject, term, academic_year) # {}

\* The primary key of the next row
next_id(table) ==
    IF table = {} THEN 1 ELSE 1 + (CHOOSE n \in {s.id : s \in table} : \A s \in table : s.id <= n)

\* INSERT of a new row (the caller has found unique_together not violated)
insert(table, student, subject, term, academic_year, class_score, exam_score) ==
    table \cup {Score(next_id(table), student, subject, term, academic_year,
                      class_score, exam_score)}

\* UPDATE of the component scores of one row
update(table, row, class_score, exam_score) ==
    (table \ {row}) \cup {[row EXCEPT !.class_score = class_score, !.exam_score = exam_score]}

\* The mutant of get_or_create: a missing row is created with full marks.
get_or_create_full_marks(table, student, subject, term, academic_year) ==
    IF rows_with_key(table, student, subject, term, academic_year) # {} THEN table
    ELSE insert(table, student, subject, term, academic_year, MaxScore * Scale, MaxScore * Scale)

\* Score.objects.get_or_create(..., defaults={'class_score': 0, 'exam_score': 0})
get_or_create(table, student, subject, term, academic_year) ==
    IF rows_with_key(table, student, subject, term, academic_year) # {} THEN table
    ELSE insert(table, student, subject, term, academic_year, 0, 0)

\* The mutant of update_or_create: a row that exists keeps its components.
update_or_create_keeps_existing(table, student, subject, term, academic_year, class_score, exam_score) ==
    IF rows_with_key(table, student, subject, term, academic_year) # {} THEN table
    ELSE insert(table, student, subject, term, academic_year, class_score, exam_score)

\* Score.objects.update_or_create(..., defaults={'class_score': ..., 'exam_score': ...})
update_or_create(table, student, subject, term, academic_year, class_score, exam_score) ==
    LET found == rows_with_key(table, student, subject, term, academic_year)
    IN  IF found # {}
        THEN update(table, CHOOSE s \in found : TRUE, class_score, exam_score)
        ELSE insert(table, student, subject, term, academic_year, class_score, exam_score)

Response(view, status) == [view |-> view, status |-> status, returned |-> {}]

\* ScoreForm(request.POST).is_valid(): the choices exist, the components pass
\* their validators and no row has the submitted key (validate_unique)
ScoreForm_is_valid(data) ==
    /\ \E st \in students : st.id = data.student
    /\ data.subject \in Subjects
    /\ data.term \in Terms
    /\ data.academic_year \in AcademicYears
    /\ valid_score(data.class_score)
    /\ valid_score(data.exam_score)
    /\ rows_with_key(scores, data.student, data.subject, data.term, data.academic_year) = {}

\* score.academic_year = current_academic_year; score.term = current_term;
\* score.save(): the table afterwards and whether the INSERT was refused
save_score(data) ==
    IF unique_together(scores, data.student, data.subject, current_term, current_academic_year)
    THEN [scores |-> scores, saved |-> FALSE]
    ELSE [scores |-> insert(scores, data.student, data.subject, current_term,
                            current_academic_year, data.class_score, data.exam_score),
          saved |-> TRUE]

\* The mutant of score_entry_result: the view without its check of the current
\* academic year and term (and of the roles).
score_entry_result_unchecked(user, method, data) ==
    IF method = "POST" /\ ScoreForm_is_valid(data) /\ save_score(data).saved
    THEN [scores |-> save_score(data).scores,
          response |-> Response("score_entry_view", "redirect score_entry")]
    ELSE [scores |-> scores, response |-> Response("score_entry_view", "rendered")]

\* score_entry_view: the table and the response after the request
score_entry_result(user, method, data) ==
    LET view == "score_entry_view"
        keep(status) == [scores |-> scores, response |-> Response(view, status)]
        saved == save_score(data)
    IN  IF current_academic_year = None \/ current_term = None
        THEN keep("redirect dashboard")
        ELSE IF is_class_teacher(user)
        THEN IF method # "POST" THEN keep("rendered")
             ELSE IF ~\E st \in students : st.id = data.student THEN keep("404")
             ELSE IF ~ScoreForm_is_valid(data) THEN keep("form error")
             ELSE IF ~saved.saved THEN keep("IntegrityError")
             ELSE [scores |-> saved.scores, response |-> Response(view, "redirect score_entry")]
        ELSE IF is_subject_teacher(user)
        THEN IF method # "POST" THEN keep("rendered")
             ELSE IF ~ScoreForm_is_valid(data) THEN keep("form error")
             ELSE IF data.subject \notin subjects_taught[user] THEN keep("not authorized")
             ELSE IF ~saved.saved THEN keep("IntegrityError")
             \* messages.success(f"...") lacks the request argument
             ELSE [scores |-> saved.scores, response |-> Response(view, "TypeError")]
        ELSE IF is_administrator(user)
        THEN IF method # "POST" THEN keep("rendered")
             ELSE IF ~ScoreForm_is_valid(data) THEN keep("form error")
             ELSE IF ~saved.saved THEN keep("IntegrityError")
             ELSE [scores |-> saved.scores, response |-> Response(view, "redirect score_entry")]
        ELSE keep("redirect dashboard")

\* The (student, subject) pairs of the nested loops of class_score_entry_bulk,
\* in loop order: students by name, subjects by name
AllPairs ==
    <<<<"A", "English">>, <<"A", "Math">>, <<"B", "English">>, <<"B", "Math">>,
      <<"C", "English">>, <<"C", "Math">>>>

IsPairOf(pair, grade_level) ==
    /\ pair[1] \in roster(grade_level, current_academic_year)
    /\ grade_level \in subject_grade_levels[pair[2]]

\* The loop of get_or_create calls over the pairs of the class
RECURSIVE create_missing(_, _, _)
create_missing(table, grade_level, i) ==
    IF i > Len(AllPairs) THEN table
    ELSE create_missing(
            IF IsPairOf(AllPairs[i], grade_level)
            THEN get_or_create(table, AllPairs[i][1], AllPairs[i][2], current_term,
                               current_academic_year)
            ELSE table,
            grade_level, i + 1)

\* The mutant of save_forms: the loop left at the first pair whose form is not
\* valid.
RECURSIVE save_forms_until_invalid(_, _, _, _)
save_forms_until_invalid(table, grade_level, posted, i) ==
    IF i > Len(AllPairs) THEN table
    ELSE LET pair == AllPairs[i]
             score_instance == CHOOSE s \in rows_with_key(table, pair[1], pair[2], current_term,
                                                          current_academic_year) : TRUE
             valid == {m \in posted[pair] : valid_score(m.class_score) /\ valid_score(m.exam_score)}
         IN  IF ~IsPairOf(pair, grade_level)
             THEN save_forms_until_invalid(table, grade_level, posted, i + 1)
             ELSE IF valid = {} THEN table
             ELSE save_forms_until_invalid(
                     update(table, score_instance, (CHOOSE m \in valid : TRUE).class_score,
                            (CHOOSE m \in valid : TRUE).exam_score),
                     grade_level, posted, i + 1)

\* The POST loop: each pair's ScoreEntryForm saved when valid.  posted[pair] is
\* empty when the pair's fields are missing, else holds the submitted marks.
RECURSIVE save_forms(_, _, _, _)
save_forms(table, grade_level, posted, i) ==
    IF i > Len(AllPairs) THEN table
    ELSE LET pair == AllPairs[i]
             score_instance == CHOOSE s \in rows_with_key(table, pair[1], pair[2], current_term,
                                                          current_academic_year) : TRUE
             valid == {m \in posted[pair] : valid_score(m.class_score) /\ valid_score(m.exam_score)}
         IN  save_forms(
                IF IsPairOf(pair, grade_level) /\ valid # {}
                THEN update(table, score_instance, (CHOOSE m \in valid : TRUE).class_score,
                            (CHOOSE m \in valid : TRUE).exam_score)
                ELSE table,
                grade_level, posted, i + 1)

\* class_score_entry_bulk: the table and the response after the request
class_score_entry_bulk_result(user, grade_level, method, posted) ==
    LET view == "class_score_entry_bulk"
        keep(status) == [scores |-> scores, response |-> Response(view, status)]
        created == create_missing(scores, grade_level, 1)
    IN  \* get_object_or_404(GradeLevel, id=grade_level_id)
        IF grade_level \notin GradeLevels THEN keep("404")
        ELSE IF current_academic_year = None \/ current_term = None
        THEN keep("redirect dashboard")
        ELSE IF ~(is_administrator(user)
                  \/ (is_class_teacher(user) /\ class_teacher_of[user] = grade_level))
        THEN keep("redirect dashboard")
        ELSE IF method = "POST"
        THEN [scores |-> save_forms(created, grade_level, posted, 1),
              response |-> Response(view, "redirect class_score_entry_bulk")]
        ELSE [scores |-> created, response |-> Response(view, "rendered")]

\* One line of the uploaded file after the header: the number of its columns,
\* the student_id and subject name, whether both numbers parse as decimals,
\* and their values
CsvRow(columns, student_id, subject_name, parses, class_score, exam_score) ==
    [columns |-> columns, student_id |-> student_id, subject_name |-> subject_name,
     parses |-> parses, class_score |-> class_score, exam_score |-> exam_score]

\* The mutant of process_row: the row applied whatever subjects the uploading
\* teacher teaches.
process_row_any_subject(acc, row, user, academic_year, term) ==
    LET error == [acc EXCEPT !.errors = @ + 1]
        found == rows_with_key(acc.scores, row.student_id, row.subject_name, term, academic_year)
    IN  IF row.columns = 0 THEN acc
        ELSE IF row.columns < 4 \/ ~row.parses THEN error
        ELSE IF ~\E st \in students : st.id = row.student_id THEN error
        ELSE IF row.subject_name \notin Subjects THEN error
        \* the INSERT or UPDATE raises InvalidOperation
        ELSE IF ~fits_column(row.class_score) \/ ~fits_column(row.exam_score) THEN error
        ELSE [acc EXCEPT
                !.scores = update_or_create(acc.scores, row.student_id, row.subject_name, term,
                                            academic_year, row.class_score, row.exam_score),
                !.created_count = IF found = {} THEN @ + 1 ELSE @,
                !.updated_count = IF found = {} THEN @ ELSE @ + 1]

\* The body of the loop over csv.reader for one row; acc holds the table, the
\* two counters and the number of errors
process_row(acc, row, user, academic_year, term) ==
    LET error == [acc EXCEPT !.errors = @ + 1]
        found == rows_with_key(acc.scores, row.student_id, row.subject_name, term, academic_year)
    IN  IF row.columns = 0 THEN acc
        ELSE IF row.columns < 4 \/ ~row.parses THEN error
        ELSE IF ~\E st \in students : st.id = row.student_id THEN error
        ELSE IF row.subject_name \notin Subjects THEN error
        ELSE IF is_subject_teacher(user) /\ row.subject_name \notin subjects_taught[user]
        THEN error
        \* the INSERT or UPDATE raises InvalidOperation
        ELSE IF ~fits_column(row.class_score) \/ ~fits_column(row.exam_score) THEN error
        ELSE [acc EXCEPT
                !.scores = update_or_create(acc.scores, row.student_id, row.subject_name, term,
                                            academic_year, row.class_score, row.exam_score),
                !.created_count = IF found = {} THEN @ + 1 ELSE @,
                !.updated_count = IF found = {} THEN @ ELSE @ + 1]

\* The mutant of process_rows: the loop left at the first row that records an
\* error (break for continue).
RECURSIVE process_rows_until_error(_, _, _, _, _, _)
process_rows_until_error(acc, rows, i, user, academic_year, term) ==
    IF i > Len(rows) THEN acc
    ELSE LET after == process_row(acc, rows[i], user, academic_year, term)
         IN  IF after.errors > acc.errors THEN after
             ELSE process_rows_until_error(after, rows, i + 1, user, academic_year, term)

RECURSIVE process_rows(_, _, _, _, _, _)
process_rows(acc, rows, i, user, academic_year, term) ==
    IF i > Len(rows) THEN acc
    ELSE process_rows(process_row(acc, rows[i], user, academic_year, term),
                      rows, i + 1, user, academic_year, term)

\* bulk_score_upload_view (its route is commented out in urls.py; the view is
\* modelled as it runs when routed): the table and the response after the
\* request.  file.is_csv: the name ends in .csv; file.has_header: the file
\* has a first line.
bulk_score_upload_result(user, method, academic_year, term, file) ==
    LET view == "bulk_score_upload_view"
        keep(status) == [scores |-> scores, response |-> Response(view, status)]
        done == process_rows([scores |-> scores, created_count |-> 0, updated_count |-> 0,
                              errors |-> 0],
                             file.rows, 1, user, academic_year, term)
    IN  IF current_academic_year = None \/ current_term = None
        THEN keep("redirect dashboard")
        ELSE IF ~(is_administrator(user) \/ is_subject_teacher(user))
        THEN keep("redirect dashboard")
        ELSE IF method # "POST" THEN keep("rendered")
        \* BulkScoreUploadForm: the term must be a term of the chosen year
        ELSE IF term_academic_year[term] # academic_year THEN keep("form error")
        ELSE IF ~file.is_csv THEN keep("redirect bulk_score_upload")
        ELSE IF ~file.has_header THEN keep("StopIteration")
        ELSE [scores |-> done.scores,
              response |-> [view |-> view, status |-> "redirect bulk_score_upload",
                            returned |-> {}, created_count |-> done.created_count,
                            updated_count |-> done.updated_count, errors |-> done.errors]]

----------------------------------------------------------------------------
(* Specification Spec: requests to the three score-writing views, by any   *)
(* user and in any order, on a school of three students.                   *)

\* Requests served in one run
MaxOps == 2

\* Lines of an uploaded file after its header
MaxRows == 2

\* Submitted component values: -0.01, 50.00 and 50.01
PostedValues == {-1, 5000, 5001}

\* The fields of a submitted ScoreForm; student Z does not exist
ScoreFormData ==
    [student : {"A", "C", "Z"}, subject : Subjects,
     term : Terms, academic_year : {"2024/2025"},
     class_score : PostedValues, exam_score : PostedValues]

NoData ==
    [student |-> None, subject |-> None, term |-> None, academic_year |-> None,
     class_score |-> 0, exam_score |-> 0]

\* What a POST to class_score_entry_bulk holds for a pair: nothing, valid
\* marks or marks with a component above 50
PostedMarks == {{}, {Marks(5000, 2500)}, {Marks(5001, 2500)}}

\* The POST data of class_score_entry_bulk for a grade level: fields for the
\* pairs of that class
PostedForms(grade_level) ==
    [{AllPairs[i] : i \in {j \in 1..Len(AllPairs) : IsPairOf(AllPairs[j], grade_level)}}
        -> PostedMarks]

NoForms == [pair \in {} |-> {}]

\* Lines of uploaded files: a valid one, one for the same key with components
\* outside [0, 50], one with a component of 1000.00, one for another key, one
\* naming no student, one naming no subject, one whose numbers do not parse,
\* a short one and an empty one
CsvRows ==
    {CsvRow(4, "A", "Math", TRUE, 5000, 5000),
     CsvRow(4, "A", "Math", TRUE, 7500, -100),
     CsvRow(4, "A", "Math", TRUE, 100000, 0),
     CsvRow(4, "B", "English", TRUE, 2500, 2500),
     CsvRow(4, "Z", "Math", TRUE, 2500, 2500),
     CsvRow(4, "A", "Latin", TRUE, 2500, 2500),
     CsvRow(4, "A", "Math", FALSE, 0, 0),
     CsvRow(2, "A", "Math", FALSE, 0, 0),
     CsvRow(0, None, None, FALSE, 0, 0)}

CsvFiles ==
    {[is_csv |-> TRUE, has_header |-> TRUE, rows |-> rows] :
        rows \in UNION {[1..n -> CsvRows] : n \in 0..MaxRows}}
    \cup {[is_csv |-> FALSE, has_header |-> TRUE, rows |-> <<>>],
          [is_csv |-> TRUE, has_header |-> FALSE, rows |-> <<>>]}

NoFile == [is_csv |-> FALSE, has_header |-> FALSE, rows |-> <<>>]

\* An empty Score table; a current year and term may not be set
Init ==
    /\ students = {Student("A", "Grade 1A", "2024/2025"), Student("B", "Grade 1A", "2024/2025"),
                   Student("C", "Grade 2A", "2024/2025")}
    /\ scores = {}
    /\ current_academic_year \in {None, "2024/2025"}
    /\ current_term \in {None, "T2"}
    /\ request = NoRequest
    /\ response = NoResponse
    /\ NotRanked
    /\ ops = 0
    /\ report_card_remarks = {}

\* What every request leaves alone
Served(view, user, method) ==
    /\ ops < MaxOps
    /\ ops' = ops + 1
    /\ request' = [view |-> view, user |-> user, method |-> method]
    /\ UNCHANGED <<students, current_academic_year, current_term, scores_queryset,
                   subject_positions, students_in_class, student_averages, class_positions,
                   report_card_remarks, frame>>

score_entry_view ==
    \E user \in Users, method \in {"GET", "POST"} :
      \E data \in IF method = "POST" THEN ScoreFormData ELSE {NoData} :
        LET result == score_entry_result(user, method, data)
        IN  /\ Served("score_entry_view", user, method)
            /\ scores' = result.scores
            /\ response' = result.response

class_score_entry_bulk ==
    \E user \in Users, grade_level \in GradeLevels, method \in {"GET", "POST"} :
      \E posted \in IF method = "POST" THEN PostedForms(grade_level) ELSE {NoForms} :
        LET result == class_score_entry_bulk_result(user, grade_level, method, posted)
        IN  /\ Served("class_score_entry_bulk", user, method)
            /\ scores' = result.scores
            /\ response' = result.response

bulk_score_upload_view ==
    \E user \in Users, method \in {"GET", "POST"}, term \in Terms :
      \E academic_year \in IF method = "POST" THEN AcademicYears ELSE {term_academic_year[term]},
         file \in IF method = "POST" THEN CsvFiles ELSE {NoFile} :
        LET result == bulk_score_upload_result(user, method, academic_year, term, file)
        IN  /\ Served("bulk_score_upload_view", user, method)
            /\ scores' = result.scores
            /\ response' = result.response

Next == score_entry_view \/ class_score_entry_bulk \/ bulk_score_upload_view

Spec == Init /\ [][Next]_vars

----------------------------------------------------------------------------
(* add_edit_report_card_remarks (views.py).                                *)

\* Users with a Teacher row (user.teacher_profile)
has_teacher_profile == [u \in Users |-> u # "admin"]

\* A ReportCardRemarks row
ReportCardRemarks(student, term, academic_year, attendance_days_present, class_teacher_signature, headteacher_signature) ==
    [student |-> student, term |-> term, academic_year |-> academic_year,
     attendance_days_present |-> attendance_days_present,
     class_teacher_signature |-> class_teacher_signature,
     headteacher_signature |-> headteacher_signature]

\* The rows of the current term and year for a student
remarks_of_student(table, student) ==
    {r \in table : /\ r.student = student /\ r.term = current_term
                   /\ r.academic_year = current_academic_year}

\* ReportCardRemarks.objects.get_or_create(student=..., term=current_term,
\* academic_year=current_academic_year, defaults={})
get_or_create_remarks(table, student) ==
    IF remarks_of_student(table, student) # {} THEN table
    ELSE table \cup {ReportCardRemarks(student, current_term, current_academic_year, 0,
                                       None, None)}

\* remarks.save() after a valid form: the submitted attendance and the
\* signatures the user's roles give
save_remarks(table, student, user, attendance_days_present) ==
    LET remarks_instance == CHOOSE r \in remarks_of_student(table, student) : TRUE
    IN  (table \ {remarks_instance}) \cup
        {[remarks_instance EXCEPT
            !.attendance_days_present = attendance_days_present,
            !.class_teacher_signature = IF is_class_teacher(user) THEN user ELSE @,
            !.headteacher_signature =
                IF is_administrator(user) /\ has_teacher_profile[user] THEN user ELSE @]}

\* add_edit_report_card_remarks: the ReportCardRemarks table and the response
\* after the request
add_edit_report_card_remarks_result(user, student_id, method, attendance_days_present) ==
    LET view == "add_edit_report_card_remarks"
        keep(status) == [report_card_remarks |-> report_card_remarks,
                         response |-> Response(view, status)]
        student == student_row(student_id)
        created == get_or_create_remarks(report_card_remarks, student_id)
    IN  IF ~\E st \in students : st.id = student_id THEN keep("404")
        ELSE IF current_academic_year = None \/ current_term = None
        THEN keep("redirect dashboard")
        ELSE IF ~(is_administrator(user)
                  \/ (is_class_teacher(user) /\ class_teacher_of[user] = student.grade_level))
        THEN keep("redirect dashboard")
        ELSE IF method # "POST"
        THEN [report_card_remarks |-> created, response |-> Response(view, "rendered")]
        \* MinValueValidator(0) on attendance_days_present
        ELSE IF attendance_days_present < 0
        THEN [report_card_remarks |-> created, response |-> Response(view, "form error")]
        ELSE [report_card_remarks |-> save_remarks(created, student_id, user,
                                                    attendance_days_present),
              response |-> Response(view, "redirect student_detail")]

----------------------------------------------------------------------------
(* Specification SpecViews: one request to one of the four views that      *)
(* write, on a table that holds rows already; the request is kept whole.   *)

\* Requests served in one run
MaxRequests == 1

\* Score tables before the request: none, a row of the current term, and a
\* row of an earlier term as well
StoredScores ==
    {{},
     {Score(1, "A", "Math", "T2", "2024/2025", 1000, 1000)},
     {Score(1, "A", "Math", "T2", "2024/2025", 1000, 1000),
      Score(2, "A", "Math", "T1", "2023/2024", 2000, 2000)}}

\* The fields of a submitted ScoreForm; the term and year need not be the
\* current ones
SubmittedScoreForms ==
    {[student |-> student, subject |-> subject, term |-> term,
      academic_year |-> term_academic_year[term], class_score |-> class_score,
      exam_score |-> 2500] :
        student \in {"A", "B", "Z"}, subject \in Subjects, term \in Terms,
        class_score \in {5000, 5001}}

InitViews ==
    /\ students = {Student("A", "Grade 1A", "2024/2025"), Student("B", "Grade 1A", "2024/2025"),
                   Student("C", "Grade 2A", "2024/2025")}
    /\ scores \in StoredScores
    /\ current_academic_year \in {None, "2024/2025"}
    /\ current_term \in {None, "T2"}
    /\ request = NoRequest
    /\ response = NoResponse
    /\ NotRanked
    /\ ops = 0
    /\ report_card_remarks = {}

\* What every request of SpecViews leaves alone
Logged ==
    /\ ops < MaxRequests
    /\ ops' = ops + 1
    /\ UNCHANGED <<students, current_academic_year, current_term, scores_queryset,
                   subject_positions, students_in_class, student_averages, class_positions,
                   frame>>

ScoreEntryRequest ==
    \E user \in Users, method \in {"GET", "POST"} :
      \E data \in IF method = "POST" THEN SubmittedScoreForms ELSE {NoData} :
        LET result == score_entry_result(user, method, data)
        IN  /\ Logged
            /\ request' = [view |-> "score_entry_view", user |-> user, method |-> method,
                           data |-> data]
            /\ scores' = result.scores
            /\ response' = result.response
            /\ UNCHANGED report_card_remarks

ClassScoreEntryBulkRequest ==
    \E user \in Users, grade_level \in GradeLevels \cup {"Grade 9"}, method \in {"GET", "POST"} :
      \E posted \in IF method = "POST" THEN PostedForms(grade_level) ELSE {NoForms} :
        LET result == class_score_entry_bulk_result(user, grade_level, method, posted)
        IN  /\ Logged
            /\ request' = [view |-> "class_score_entry_bulk", user |-> user, method |-> method,
                           grade_level |-> grade_level, posted |-> posted]
            /\ scores' = result.scores
            /\ response' = result.response
            /\ UNCHANGED report_card_remarks

BulkScoreUploadRequest ==
    \E user \in Users, method \in {"GET", "POST"}, term \in Terms :
      \E academic_year \in IF method = "POST" THEN AcademicYears ELSE {term_academic_year[term]},
         file \in IF method = "POST" THEN CsvFiles ELSE {NoFile} :
        LET result == bulk_score_upload_result(user, method, academic_year, term, file)
        IN  /\ Logged
            /\ request' = [view |-> "bulk_score_upload_view", user |-> user, method |-> method,
                           academic_year |-> academic_year, term |-> term, file |-> file]
            /\ scores' = result.scores
            /\ response' = result.response
            /\ UNCHANGED report_card_remarks

ReportCardRemarksRequest ==
    \E user \in Users, student_id \in {"A", "C", "Z"}, method \in {"GET", "POST"} :
      \E attendance_days_present \in IF method = "POST" THEN {-1, 5} ELSE {0} :
        LET result == add_edit_report_card_remarks_result(user, student_id, method,
                                                          attendance_days_present)
        IN  /\ Logged
            /\ request' = [view |-> "add_edit_report_card_remarks", user |-> user,
                           method |-> method, student_id |-> student_id,
                           attendance_days_present |-> attendance_days_present]
            /\ report_card_remarks' = result.report_card_remarks
            /\ response' = result.response
            /\ UNCHANGED scores

NextViews ==
    \/ ScoreEntryRequest \/ ClassScoreEntryBulkRequest
    \/ BulkScoreUploadRequest \/ ReportCardRemarksRequest

SpecViews == InitViews /\ [][NextViews]_vars

----------------------------------------------------------------------------
(* Specification SpecConc: one call of calculate_class_positions, query by *)
(* query, while the admin site adds, changes and deletes Score rows in     *)
(* other requests.  A queryset reads the table when it is evaluated:       *)
(* exists() runs a query of its own, the iteration of sum() runs a second  *)
(* one and fills the result cache, count() then takes the cache's length.  *)

\* Score rows written by the admin site during one ranking call
MaxWrites == 2

\* The marks the admin site writes
AdminMarks == {Marks(5000, 5000)}

InitConc ==
    /\ students = {Student("A", "Grade 1A", "2024/2025"), Student("B", "Grade 1A", "2024/2025")}
    /\ scores = {Score(1, "A", "Math", "T2", "2024/2025", 4000, 4000),
                 Score(2, "B", "Math", "T2", "2024/2025", 3000, 3000)}
    /\ current_academic_year = "2024/2025"
    /\ current_term = "T2"
    /\ request = [view |-> "report", academic_year |-> "2024/2025", term |-> "T2",
                  grade_level |-> "Grade 1A"]
    /\ response = NoResponse
    /\ NotRanked
    /\ ops = 0
    /\ report_card_remarks = {}

\* What a query of the ranking call leaves alone
CallFrame ==
    UNCHANGED <<students, scores, current_academic_year, current_term, request,
                scores_queryset, subject_positions, students_in_class, ops,
                report_card_remarks>>

\* calculate_class_positions(students_in_class, academic_year, term) is
\* entered: student_averages = {} and the loop over the roster starts
EnterClassPositions ==
    /\ frame = NoFrame
    /\ response = NoResponse
    /\ \E roster_order \in any_order(roster(request.grade_level, request.academic_year)) :
          frame' = [pc |-> "exists", order |-> roster_order, pending |-> roster_order,
                    result_cache |-> {}]
    /\ students_in_class' = roster(request.grade_level, request.academic_year)
    /\ student_averages' = <<>>
    /\ response' = [response EXCEPT !.view = "report"]
    /\ UNCHANGED <<students, scores, current_academic_year, current_term, request,
                   scores_queryset, subject_positions, class_positions, ops,
                   report_card_remarks>>

\* if student_scores.exists(): a query of its own; without rows the student
\* gets the value 0
QueryExists ==
    /\ frame.pc = "exists"
    /\ frame.pending # <<>>
    /\ LET student == Head(frame.pending)
       IN  IF student_scores(student, request.academic_year, request.term) # {}
           THEN /\ frame' = [frame EXCEPT !.pc = "sum"]
                /\ UNCHANGED student_averages
           ELSE /\ frame' = [frame EXCEPT !.pending = Tail(@)]
                /\ student_averages' = (student :> [num |-> 0, den |-> 1]) @@ student_averages
    /\ UNCHANGED <<response, class_positions>>
    /\ CallFrame

\* sum(s.total_score for s in student_scores): the iteration runs the query
\* and keeps its rows in the queryset's result cache
QueryRows ==
    /\ frame.pc = "sum"
    /\ frame' = [frame EXCEPT !.pc = "count",
                    !.result_cache = student_scores(Head(frame.pending), request.academic_year,
                                                    request.term)]
    /\ UNCHANGED <<response, student_averages, class_positions>>
    /\ CallFrame

\* average_score = total_scores_sum / student_scores.count(): count() is the
\* length of the result cache; an empty cache gives 0 / 0
Divide ==
    /\ frame.pc = "count"
    /\ IF frame.result_cache = {}
       THEN /\ response' = [response EXCEPT !.status = "ZeroDivisionError"]
            /\ frame' = NoFrame
            /\ UNCHANGED student_averages
       ELSE /\ student_averages' =
                  (Head(frame.pending) :>
                      [num |-> sum_total_scores(frame.result_cache),
                       den |-> Cardinality(frame.result_cache)]) @@ student_averages
            /\ frame' = [frame EXCEPT !.pc = "exists", !.pending = Tail(@), !.result_cache = {}]
            /\ UNCHANGED response
    /\ UNCHANGED class_positions
    /\ CallFrame

\* The loop is over: the averages are sorted and ranked, the map is returned
ReturnClassPositions ==
    /\ frame.pc = "exists"
    /\ frame.pending = <<>>
    /\ LET avgs == [i \in 1..Len(frame.order) |-> student_averages[frame.order[i]]]
           items == [i \in 1..Len(frame.order) |-> <<frame.order[i], avgs[i]>>]
       IN  class_positions' = rank_students(sorted_reverse(items, avgs), 1, 1, <<>>)
    /\ response' = [response EXCEPT !.status = "returned",
                       !.returned = @ \cup {"calculate_class_positions"}]
    /\ frame' = NoFrame
    /\ UNCHANGED student_averages
    /\ CallFrame

\* What a request to the admin site leaves alone
AdminWrite ==
    /\ ops < MaxWrites
    /\ ops' = ops + 1
    /\ UNCHANGED <<students, current_academic_year, current_term, request, response,
                   scores_queryset, subject_positions, students_in_class, student_averages,
                   class_positions, report_card_remarks, frame>>

\* The add form of ScoreAdmin, saved for a key that has no row
ScoreAdminAdd ==
    /\ \E st \in students, subject \in Subjects, m \in AdminMarks :
          /\ ~unique_together(scores, st.id, subject, request.term, request.academic_year)
          /\ scores' = insert(scores, st.id, subject, request.term, request.academic_year,
                              m.class_score, m.exam_score)
    /\ AdminWrite

\* The change form of ScoreAdmin, saved with other marks
ScoreAdminChange ==
    /\ \E row \in scores, m \in AdminMarks :
          /\ Marks(row.class_score, row.exam_score) # m
          /\ scores' = update(scores, row, m.class_score, m.exam_score)
    /\ AdminWrite

\* The delete action of ScoreAdmin on one row
ScoreAdminDelete ==
    /\ \E row \in scores : scores' = scores \ {row}
    /\ AdminWrite

NextConc ==
    \/ EnterClassPositions \/ QueryExists \/ QueryRows \/ Divide \/ ReturnClassPositions
    \/ ScoreAdminAdd \/ ScoreAdminChange \/ ScoreAdminDelete

SpecConc == InitConc /\ [][NextConc]_vars

----------------------------------------------------------------------------
(* Specification SpecReport: the two report views (views.py), each request *)
(* served as a whole.  The templates and the PDF are not modelled: the     *)
(* response holds the values of the context.                               *)

\* The mutant of stored_after_report: the report creating the 0/0 rows its
\* class lacks, as class_score_entry_bulk does.
stored_after_report_filled(table, grade_level) == create_missing(table, grade_level, 1)

\* The Score table after a report: the views set subject_position on the
\* objects they read and call save() on none of them
stored_after_report(table, grade_level) == table

\* The integer nearest to num / den (den > 0), a tie going to the even one
round_half_even(num, den) ==
    LET floor == num \div den
        twice == 2 * (num - floor * den)
    IN  IF twice < den THEN floor
        ELSE IF twice > den THEN floor + 1
        ELSE IF floor % 2 = 0 THEN floor ELSE floor + 1

\* f"{learners_average_score:.2f}": the value rounded to two places, in
\* units of 0.01
format_2f(value) == round_half_even(value.num, value.den)

\* The mutant of learners_average_score: the mean taken over the subjects of
\* the school, not over the student's scores.
learners_average_score_of_all_subjects(rows) ==
    [num |-> sum_total_scores(rows), den |-> Cardinality(Subjects)]

\* total_scores_sum / count if count > 0 else 0
learners_average_score(rows) ==
    IF Cardinality(rows) > 0
    THEN [num |-> sum_total_scores(rows), den |-> Cardinality(rows)]
    ELSE [num |-> 0, den |-> 1]

\* class_positions.get(student.id, 'N/A')
position_or_na(positions, key) == IF key \in DOMAIN positions THEN positions[key] ELSE "N/A"

\* The outcome of a report request that ranks nothing
NoReport(view, status) ==
    [ranked |-> FALSE, response |-> Response(view, status)]

\* The permission check of generate_individual_report_card
may_report_student(user, student, academic_year, term) ==
    \/ is_administrator(user)
    \/ is_class_teacher(user) /\ class_teacher_of[user] = student.grade_level
    \/ /\ is_subject_teacher(user)
       /\ \E s \in student_scores(student.id, academic_year, term) :
             s.subject \in subjects_taught[user]

\* generate_individual_report_card: the rankings computed and the response;
\* school_info tells whether a School row exists
generate_individual_report_card_result(user, student_id, academic_year, term, school_info, roster_order, db_order) ==
    LET view == "generate_individual_report_card"
        student == student_row(student_id)
        rows == student_scores(student_id, academic_year, term)
        queryset == all_scores_in_grade_term(academic_year, term, student.grade_level)
        positions == calculate_class_positions(roster_order, academic_year, term)
        by_subject == calculate_subject_positions(queryset, db_order)
    IN  IF ~(\E st \in students : st.id = student_id) \/ academic_year \notin AcademicYears
           \/ term \notin Terms
        THEN NoReport(view, "404")
        ELSE IF ~may_report_student(user, student, academic_year, term)
        THEN NoReport(view, "redirect dashboard")
        ELSE IF ~school_info THEN NoReport(view, "redirect dashboard")
        ELSE [ranked |-> TRUE,
              students_in_class |-> roster(student.grade_level, academic_year),
              scores_queryset |-> queryset,
              class_positions |-> positions,
              subject_positions |-> by_subject,
              response |->
                 [view |-> view, status |-> "pdf",
                  returned |-> {"calculate_class_positions", "calculate_subject_positions"},
                  context |->
                     [st \in {student_id} |->
                        [learners_average_score |-> format_2f(learners_average_score(rows)),
                         position_in_class |-> position_or_na(positions, student_id),
                         subject_position |->
                            [s \in {r.subject : r \in rows} |->
                                position_or_na(by_subject, <<student_id, s>>)]]]]]

\* generate_class_report_card: the rankings computed and the response
generate_class_report_card_result(user, grade_level, academic_year, term, school_info, roster_order, db_order) ==
    LET view == "generate_class_report_card"
        in_class == roster(grade_level, academic_year)
        queryset == all_scores_in_grade_term(academic_year, term, grade_level)
        positions == calculate_class_positions(roster_order, academic_year, term)
        by_subject == calculate_subject_positions(queryset, db_order)
    IN  IF grade_level \notin GradeLevels \/ academic_year \notin AcademicYears
           \/ term \notin Terms
        THEN NoReport(view, "404")
        ELSE IF ~(is_administrator(user)
                  \/ (is_class_teacher(user) /\ class_teacher_of[user] = grade_level))
        THEN NoReport(view, "redirect dashboard")
        ELSE IF ~school_info THEN NoReport(view, "redirect dashboard")
        ELSE [ranked |-> TRUE,
              students_in_class |-> in_class,
              scores_queryset |-> queryset,
              class_positions |-> positions,
              subject_positions |-> by_subject,
              response |->
                 [view |-> view, status |-> "pdf",
                  returned |-> {"calculate_class_positions", "calculate_subject_positions"},
                  context |->
                     [st \in in_class |->
                        LET rows == {s \in queryset : s.student = st}
                        IN  [learners_average_score |-> format_2f(learners_average_score(rows)),
                             position_in_class |-> position_or_na(positions, st),
                             subject_position |->
                                [s \in {r.subject : r \in rows} |->
                                    position_or_na(by_subject, <<st, s>>)]]]]]

\* Marks of the school of SpecReport; two of them give averages that end in
\* half a hundredth
ReportMathMarks == {Marks(4500, 4500), Marks(5000, 3000)}
ReportEnglishMarks == {Marks(3333, 3334), Marks(3333, 3332)}

\* A and B of Grade 1A with or without rows, C of Grade 1A enrolled in
\* another year, D of Grade 2A, and a row of another term
InitReport ==
    /\ students = {Student("A", "Grade 1A", "2024/2025"), Student("B", "Grade 1A", "2024/2025"),
                   Student("C", "Grade 1A", "2023/2024"), Student("D", "Grade 2A", "2024/2025")}
    /\ \E math \in [{"A", "B"} -> OneOrNone(ReportMathMarks)],
          english \in OneOrNone(ReportEnglishMarks) :
          scores =
            {Score(1, "A", "Math", "T1", "2023/2024", 1000, 1000),
             Score(2, "C", "Math", "T2", "2024/2025", 5000, 5000),
             Score(3, "D", "Math", "T2", "2024/2025", 2000, 2000)}
            \cup UNION {{Score(10 + i, <<"A", "B">>[i], "Math", "T2", "2024/2025",
                               m.class_score, m.exam_score) : m \in math[<<"A", "B">>[i]]} :
                        i \in 1..2}
            \cup {Score(21, "B", "English", "T2", "2024/2025", m.class_score, m.exam_score) :
                    m \in english}
    /\ current_academic_year = "2024/2025"
    /\ current_term = "T2"
    /\ request = NoRequest
    /\ response = NoResponse
    /\ NotRanked
    /\ ops = 0
    /\ report_card_remarks = {}

\* Report requests served in one run
MaxReports == 1

\* The state after a report request with the given outcome
Reported(result, grade_level) ==
    /\ ops < MaxReports
    /\ ops' = ops + 1
    /\ response' = result.response
    /\ scores' = stored_after_report(scores, grade_level)
    /\ IF result.ranked
       THEN /\ students_in_class' = result.students_in_class
            /\ student_averages' =
                  [st \in result.students_in_class |->
                      average_of(student_scores(st, request'.academic_year, request'.term))]
            /\ class_positions' = result.class_positions
            /\ scores_queryset' = result.scores_queryset
            /\ subject_positions' = result.subject_positions
       ELSE UNCHANGED <<students_in_class, student_averages, class_positions, scores_queryset,
                        subject_positions>>
    /\ UNCHANGED <<students, current_academic_year, current_term, report_card_remarks, frame>>

generate_individual_report_card ==
    \E user \in Users, student_id \in {"A", "B", "C", "D", "Z"},
       academic_year \in AcademicYears, term \in Terms, school_info \in BOOLEAN :
      LET grade_level == IF student_id = "Z" THEN None ELSE student_row(student_id).grade_level
      IN  \E roster_order \in any_order(roster(grade_level, academic_year)),
             db_order \in db_orders(all_scores_in_grade_term(academic_year, term, grade_level)) :
            /\ request' = [view |-> "generate_individual_report_card", user |-> user,
                           student_id |-> student_id, academic_year |-> academic_year,
                           term |-> term]
            /\ Reported(generate_individual_report_card_result(
                            user, student_id, academic_year, term, school_info,
                            roster_order, db_order),
                        grade_level)

generate_class_report_card ==
    \E user \in Users, grade_level \in GradeLevels \cup {"Grade 9"},
       academic_year \in AcademicYears, term \in Terms, school_info \in BOOLEAN :
      \E roster_order \in any_order(roster(grade_level, academic_year)),
         db_order \in db_orders(all_scores_in_grade_term(academic_year, term, grade_level)) :
        /\ request' = [view |-> "generate_class_report_card", user |-> user,
                       grade_level |-> grade_level, academic_year |-> academic_year,
                       term |-> term]
        /\ Reported(generate_class_report_card_result(
                        user, grade_level, academic_year, term, school_info,
                        roster_order, db_order),
                    grade_level)

NextReport == generate_individual_report_card \/ generate_class_report_card

SpecReport == InitReport /\ [][NextReport]_vars

----------------------------------------------------------------------------
(* Properties of the ranking functions, checked under SpecRank.            *)

SubjectPositionsReturned == "calculate_subject_positions" \in response.returned
ClassPositionsReturned == "calculate_class_positions" \in response.returned

\* The total of a row, written out
RowTotal(s) == s.class_score + s.exam_score

\* The rows of the store for a student in the requested term and year
RowsOf(st) ==
    {s \in scores : s.student = st /\ s.academic_year = request.academic_year
                    /\ s.term = request.term}

RECURSIVE SumOfTotals(_)
SumOfTotals(rows) ==
    IF rows = {} THEN 0
    ELSE LET s == CHOOSE r \in rows : TRUE IN RowTotal(s) + SumOfTotals(rows \ {s})

\* The mean of a's totals is greater than the mean of b's totals, a student
\* without rows counting as 0
MeanGreater(a, b) ==
    LET na == IF a = {} THEN 1 ELSE Cardinality(a)
        nb == IF b = {} THEN 1 ELSE Cardinality(b)
    IN  SumOfTotals(a) * nb > SumOfTotals(b) * na

\* The Math totals of the six students A..F are 90, 90, 80, 70, 70, 70
TieJumpScenario ==
    /\ Cardinality(scores_queryset) = 6
    /\ \A s \in scores_queryset :
          /\ s.subject = "Math"
          /\ s.student \in {"A", "B"} => RowTotal(s) = 90 * Scale
          /\ s.student = "C" => RowTotal(s) = 80 * Scale
          /\ s.student \in {"D", "E", "F"} => RowTotal(s) = 70 * Scale

\* C1: calculate_subject_positions is standard competition ranking per subject:
\* the position of every row of the input is 1 + the number of rows of the same
\* subject with a strictly greater total; totals 90, 90, 80, 70, 70, 70 get the
\* positions 1, 1, 3, 4, 4, 4.
C1_SubjectCompetitionRanking ==
    SubjectPositionsReturned =>
        /\ \A s \in scores_queryset :
              subject_positions[<<s.student, s.subject>>] =
                  1 + Cardinality({o \in scores_queryset :
                                      o.subject = s.subject /\ RowTotal(o) > RowTotal(s)})
        /\ TieJumpScenario =>
              /\ \A st \in {"A", "B"} : subject_positions[<<st, "Math">>] = 1
              /\ subject_positions[<<"C", "Math">>] = 3
              /\ \A st \in {"D", "E", "F"} : subject_positions[<<st, "Math">>] = 4

\* Reached: the six totals 90, 90, 80, 70, 70, 70 ranked 1, 1, 3, 4, 4, 4.
C1_Witness ==
    /\ SubjectPositionsReturned
    /\ TieJumpScenario
    /\ subject_positions[<<"C", "Math">>] = 3
    /\ subject_positions[<<"F", "Math">>] = 4

\* C2: calculate_class_positions ranks the roster once by the mean of each
\* student's totals for the term and year: the value kept for a student with
\* rows is their sum over their number, and the position of every roster
\* student is 1 + the number of roster students with a strictly greater mean.
C2_ClassRankingByMean ==
    ClassPositionsReturned =>
        /\ DOMAIN class_positions = students_in_class
        /\ \A st \in students_in_class :
              /\ RowsOf(st) # {} =>
                    student_averages[st].num * Cardinality(RowsOf(st))
                        = SumOfTotals(RowsOf(st)) * student_averages[st].den
              /\ class_positions[st] =
                    1 + Cardinality({o \in students_in_class : MeanGreater(RowsOf(o), RowsOf(st))})

\* Reached: a student with one row of 90 is placed before a student with rows
\* of 90 and 80, whose sum is greater and whose mean is lower.
C2_Witness ==
    /\ ClassPositionsReturned
    /\ {"A", "B"} \subseteq students_in_class
    /\ Cardinality(RowsOf("A")) = 1 /\ SumOfTotals(RowsOf("A")) = 90 * Scale
    /\ Cardinality(RowsOf("B")) = 2 /\ SumOfTotals(RowsOf("B")) = 170 * Scale
    /\ class_positions["A"] = 1
    /\ class_positions["B"] = 2

\* C3: a roster student without rows for the term and year is kept: the
\* student is in the returned map with the value 0, and is placed by that value
\* (after every student with a positive mean, level with a student whose mean
\* is 0).
C3_NoScoresRankedAsZero ==
    ClassPositionsReturned =>
        \A st \in students_in_class :
            RowsOf(st) = {} =>
                /\ st \in DOMAIN class_positions
                /\ student_averages[st].num = 0
                /\ class_positions[st] =
                      1 + Cardinality({o \in students_in_class : SumOfTotals(RowsOf(o)) > 0})
                /\ \A o \in students_in_class :
                      SumOfTotals(RowsOf(o)) = 0 => class_positions[o] = class_positions[st]

\* Reached: a student without rows shares position 2 with a student whose only
\* row has the total 0, behind a student with a positive mean.
C3_Witness ==
    /\ ClassPositionsReturned
    /\ \E a, b, c \in students_in_class :
          /\ RowsOf(a) = {}
          /\ RowsOf(b) # {} /\ SumOfTotals(RowsOf(b)) = 0
          /\ SumOfTotals(RowsOf(c)) > 0
          /\ class_positions[a] = 2 /\ class_positions[b] = 2 /\ class_positions[c] = 1

\* C4: the keys of the map calculate_subject_positions returns are exactly the
\* (student, subject) pairs that have a row in its input: a student without a
\* row for a subject has no key for it.
C4_SubjectKeysAreInputPairs ==
    SubjectPositionsReturned =>
        /\ DOMAIN subject_positions = {<<s.student, s.subject>> : s \in scores_queryset}
        /\ \A st \in students, subject \in Subjects :
              (\A s \in scores_queryset : ~(s.student = st.id /\ s.subject = subject))
                  => <<st.id, subject>> \notin DOMAIN subject_positions

\* Reached: a subject was ranked in which one student of the class has a row
\* and another, who has a row in the other subject, has none.
C4_Witness ==
    /\ SubjectPositionsReturned
    /\ \E a, b \in scores_queryset :
          /\ a.subject = "English" /\ b.subject = "Math"
          /\ a.student # b.student
          /\ <<b.student, "English">> \notin DOMAIN subject_positions
          /\ <<a.student, "English">> \in DOMAIN subject_positions
          /\ <<b.student, "Math">> \in DOMAIN subject_positions

\* The rows of the requested term, year and grade level are A: Math 90,
\* English 80; B: Math 90, English 70; C: Math 0
EndToEndScenario ==
    /\ request.grade_level = "Grade 1A"
    /\ roster(request.grade_level, request.academic_year) = {"A", "B", "C"}
    /\ {<<s.student, s.subject, RowTotal(s)>> :
            s \in {r \in scores : /\ r.academic_year = request.academic_year
                                  /\ r.term = request.term
                                  /\ r.student \in {"A", "B", "C"}}}
         = {<<"A", "Math", 90 * Scale>>, <<"A", "English", 80 * Scale>>,
            <<"B", "Math", 90 * Scale>>, <<"B", "English", 70 * Scale>>,
            <<"C", "Math", 0>>}

\* C5: with the roster {A, B, C} and the rows A: Math 90, English 80; B: Math
\* 90, English 70; C: Math 0, the Math positions are A 1, B 1, C 3, the English
\* positions A 1, B 2 with no key for C, the averages 85, 80 and 0 and the
\* class positions A 1, B 2, C 3.
C5_EndToEnd ==
    EndToEndScenario =>
        /\ SubjectPositionsReturned =>
              subject_positions = (<<"A", "Math">> :> 1) @@ (<<"B", "Math">> :> 1)
                                  @@ (<<"C", "Math">> :> 3) @@ (<<"A", "English">> :> 1)
                                  @@ (<<"B", "English">> :> 2)
        /\ ClassPositionsReturned =>
              /\ student_averages["A"].num = 85 * Scale * student_averages["A"].den
              /\ student_averages["B"].num = 80 * Scale * student_averages["B"].den
              /\ student_averages["C"].num = 0
              /\ class_positions = ("A" :> 1) @@ ("B" :> 2) @@ ("C" :> 3)

\* Reached: the scenario with both functions returned.
C5_Witness ==
    /\ EndToEndScenario
    /\ SubjectPositionsReturned
    /\ ClassPositionsReturned
    /\ subject_positions[<<"C", "Math">>] = 3
    /\ class_positions["C"] = 3

----------------------------------------------------------------------------
(* Properties of the derived values, checked under SpecAgg.                *)

Shown == IF response.view = "ScoreAdmin" THEN response.rows ELSE {}

\* The letters from worst to best
LetterRank(g) ==
    CASE g = "F" -> 0 [] g = "D" -> 1 [] g = "C" -> 2 [] g = "B" -> 3 [] g = "A" -> 4

\* C6: Score.grade gives every total exactly one letter by half-open bands,
\* inclusive at the lower edge: >= 80 A, [70, 80) B, [60, 70) C, [50, 60) D,
\* < 50 F; 79.99 is B, 80.00 A, 49.99 F, 50.00 D; a higher total never gets a
\* worse letter.
C6_GradeBands ==
    /\ \A r \in Shown :
          LET total == RowTotal(r.score)
          IN  /\ r.grade \in {"A", "B", "C", "D", "F"}
              /\ r.grade = "A" <=> total >= 8000
              /\ r.grade = "B" <=> (7000 <= total /\ total < 8000)
              /\ r.grade = "C" <=> (6000 <= total /\ total < 7000)
              /\ r.grade = "D" <=> (5000 <= total /\ total < 6000)
              /\ r.grade = "F" <=> total < 5000
              /\ total = 7999 => r.grade = "B"
              /\ total = 8000 => r.grade = "A"
              /\ total = 4999 => r.grade = "F"
              /\ total = 5000 => r.grade = "D"
    /\ \A r1, r2 \in Shown :
          RowTotal(r1.score) > RowTotal(r2.score) => LetterRank(r1.grade) >= LetterRank(r2.grade)

\* Reached: rows with the totals 79.99 and 80.00 shown with B and A.
C6_Witness ==
    \E r1, r2 \in Shown :
        /\ RowTotal(r1.score) = 7999 /\ r1.grade = "B"
        /\ RowTotal(r2.score) = 8000 /\ r2.grade = "A"

\* C7: Score.total_score is exactly class_score + exam_score, neither rounded
\* nor clamped: within [0, 100] when both components are within [0, 50], and
\* the plain sum also when they are not.
C7_TotalIsPlainSum ==
    \A r \in Shown :
        /\ r.total_score = r.score.class_score + r.score.exam_score
        /\ (/\ MinScore * Scale <= r.score.class_score /\ r.score.class_score <= MaxScore * Scale
            /\ MinScore * Scale <= r.score.exam_score /\ r.score.exam_score <= MaxScore * Scale)
              => (0 <= r.total_score /\ r.total_score <= 100 * Scale)

\* Reached: a row with the components 75.00 and 50.00 shown with the total
\* 125.00, beside a row with 40.00 and 39.99 shown with 79.99.
C7_Witness ==
    /\ \E r \in Shown : r.score.class_score = 7500 /\ r.score.exam_score = 5000
                        /\ r.total_score = 12500
    /\ \E r \in Shown : r.score.class_score = 4000 /\ r.score.exam_score = 3999
                        /\ r.total_score = 7999

\* C8: Score.remarks depends on the grade alone: A Excellent, B Very Good,
\* C Good, D Pass, F Fail; rows of equal grade have equal remarks, whatever
\* their component scores.
C8_RemarksByGrade ==
    /\ \A r \in Shown :
          r.remarks = CASE r.grade = "A" -> "Excellent"
                        [] r.grade = "B" -> "Very Good"
                        [] r.grade = "C" -> "Good"
                        [] r.grade = "D" -> "Pass"
                        [] r.grade = "F" -> "Fail"
    /\ \A r1, r2 \in Shown : r1.grade = r2.grade => r1.remarks = r2.remarks

\* Reached: two rows of different component scores shown with the grade F and
\* the remark Fail.
C8_Witness ==
    \E r1, r2 \in Shown :
        /\ r1.score.class_score # r2.score.class_score
        /\ r1.grade = "F" /\ r2.grade = "F"
        /\ r1.remarks = "Fail" /\ r2.remarks = "Fail"

----------------------------------------------------------------------------
(* Properties of the Score table, checked under Spec.                      *)

\* C9: after any sequence of requests to score_entry_view,
\* class_score_entry_bulk and bulk_score_upload_view, no two stored Score rows
\* share their (student, subject, term, academic_year).
C9_OneScorePerKey ==
    \A s1, s2 \in scores :
        (/\ s1.student = s2.student /\ s1.subject = s2.subject
         /\ s1.term = s2.term /\ s1.academic_year = s2.academic_year) => s1 = s2

\* Reached: score_entry_view passed a form whose term is not the current one
\* for a key that has a row in the current term, and the INSERT was refused.
C9_Witness ==
    /\ response.view = "score_entry_view"
    /\ response.status = "IntegrityError"
    /\ Cardinality(scores) >= 1

\* C10: after any sequence of score-writing requests every stored Score row
\* has class_score and exam_score within [0, 50].
C10_ComponentsWithinBounds ==
    \A s \in scores :
        /\ MinScore * Scale <= s.class_score /\ s.class_score <= MaxScore * Scale
        /\ MinScore * Scale <= s.exam_score /\ s.exam_score <= MaxScore * Scale

----------------------------------------------------------------------------
(* Properties of a ranking call under concurrent writes, checked under     *)
(* SpecConc.                                                               *)

\* C11: a call of calculate_class_positions works on one snapshot even when
\* Score rows are created, changed or deleted between its reads: a student
\* found to have rows (exists) has rows when they are summed and counted, so
\* the division is never by zero.
C11_OneSnapshotNoZeroDivision ==
    /\ response.status # "ZeroDivisionError"
    /\ frame.pc = "count" => frame.result_cache # {}

----------------------------------------------------------------------------
(* Properties of the report views, checked under SpecReport.               *)

\* C12: ranking and report generation never write scores: a request to
\* generate_individual_report_card or generate_class_report_card, with its
\* calls of calculate_subject_positions and calculate_class_positions, leaves
\* the Score table as it was, rows and component scores alike.
C12_ReportsNeverWriteScores == [][scores' = scores]_vars

\* Reached: a class report with both rankings computed for a class with scores.
C12_Witness ==
    /\ response.view = "generate_class_report_card"
    /\ response.status = "pdf"
    /\ class_positions # <<>>
    /\ subject_positions # <<>>

----------------------------------------------------------------------------
(* Properties of the views that write, checked under SpecViews.            *)

\* The step is an upload whose rows were processed
UploadProcessed ==
    /\ request'.view = "bulk_score_upload_view"
    /\ response'.status = "redirect bulk_score_upload"
    /\ "errors" \in DOMAIN response'

\* A line that is not blank and has too few columns, numbers that do not
\* parse, a student_id that does not exist or a subject name that does not
RowMalformed(row) ==
    /\ row.columns > 0
    /\ \/ row.columns < 4
       \/ ~row.parses
       \/ ~\E st \in students : st.id = row.student_id
       \/ row.subject_name \notin Subjects

\* A line with too few columns (a blank one included), or malformed otherwise
RowMalformedOrBlank(row) == row.columns = 0 \/ RowMalformed(row)

\* Both components of the line have at most five digits, two of them after
\* the point
RowFitsColumns(row) ==
    /\ row.class_score \in -99999..99999
    /\ row.exam_score \in -99999..99999

\* A well-formed line for a subject the user may upload, with components the
\* columns can hold
RowAccepted(row, user) ==
    /\ row.columns > 0
    /\ ~RowMalformed(row)
    /\ ~(is_subject_teacher(user) /\ row.subject_name \notin subjects_taught[user])
    /\ RowFitsColumns(row)

\* The table after the upload is the table before it with, for each key, the
\* marks of the last accepted line of that key, and nothing else changed
OnlyAcceptedRowsWritten ==
    LET rows == request'.file.rows
        user == request'.user
        accepted(student, subject) ==
            {i \in 1..Len(rows) : /\ RowAccepted(rows[i], user)
                                  /\ rows[i].student_id = student
                                  /\ rows[i].subject_name = subject}
        last(set) == CHOOSE i \in set : \A j \in set : j <= i
    IN  /\ \A st \in students, subject \in Subjects :
              LET before == rows_with_key(scores, st.id, subject, request'.term,
                                          request'.academic_year)
                  after == rows_with_key(scores', st.id, subject, request'.term,
                                         request'.academic_year)
                  lines == accepted(st.id, subject)
              IN  IF lines = {} THEN after = before
                  ELSE /\ Cardinality(after) = 1
                       /\ \A s \in after :
                             /\ s.class_score = rows[last(lines)].class_score
                             /\ s.exam_score = rows[last(lines)].exam_score
        /\ {s \in scores' : s.term # request'.term \/ s.academic_year # request'.academic_year}
           = {s \in scores : s.term # request'.term \/ s.academic_year # request'.academic_year}
        /\ \A s \in scores' : \E st \in students : st.id = s.student

\* C13 (as amended): in bulk_score_upload_view a line that is not blank and
\* has too few columns, numbers that do not parse, or an unknown student_id or
\* subject name is rejected: it writes no Score, an error is recorded for it,
\* and every other line of the file is still processed.  A blank line is
\* skipped and records no error.
C13_MalformedRowsRejected ==
    [][UploadProcessed =>
          LET rows == request'.file.rows
              refused == {i \in 1..Len(rows) :
                            \/ RowMalformed(rows[i])
                            \/ rows[i].columns > 0 /\ ~RowAccepted(rows[i], request'.user)}
              written == {i \in 1..Len(rows) : RowAccepted(rows[i], request'.user)}
          IN  /\ response'.errors = Cardinality(refused)
              /\ response'.created_count + response'.updated_count = Cardinality(written)
              /\ OnlyAcceptedRowsWritten]_vars

\* Reached: a file whose first line names no student and whose second line is
\* valid was uploaded: one error, one Score created.
C13_Witness ==
    /\ request.view = "bulk_score_upload_view"
    /\ "errors" \in DOMAIN response
    /\ Len(request.file.rows) = 2
    /\ request.file.rows[1].student_id = "Z"
    /\ request.file.rows[1].columns = 4
    /\ request.file.rows[2] = CsvRow(4, "A", "Math", TRUE, 5000, 5000)
    /\ response.errors = 1
    /\ response.created_count = 1
    /\ \E s \in scores : s.student = "A" /\ s.class_score = 5000 /\ s.exam_score = 5000

\* C13 as stated: every line with too few columns, unparsable numbers or an
\* unknown student or subject writes no Score and has an error recorded, the
\* other lines being processed.
C13_EveryShortRowRecordsAnError ==
    [][UploadProcessed =>
          LET rows == request'.file.rows
          IN  /\ response'.errors >=
                    Cardinality({i \in 1..Len(rows) : RowMalformedOrBlank(rows[i])})
              /\ OnlyAcceptedRowsWritten]_vars

----------------------------------------------------------------------------
(* Properties of the ranking functions on any rows, checked under          *)
(* SpecOutliers.                                                           *)

\* C14: both ranking functions return for rows with negative or above-50
\* components, and rank them by the same rule, unclamped and unfiltered: every
\* row and every roster student is in the result, placed by 1 + the number of
\* strictly greater totals (means); a student with a negative mean comes after
\* a roster student without rows, whose value is 0.
C14_OutliersRankedUnchanged ==
    /\ SubjectPositionsReturned =>
          /\ DOMAIN subject_positions = {<<s.student, s.subject>> : s \in scores_queryset}
          /\ \A s \in scores_queryset :
                subject_positions[<<s.student, s.subject>>] =
                    1 + Cardinality({o \in scores_queryset :
                                        o.subject = s.subject /\ RowTotal(o) > RowTotal(s)})
    /\ ClassPositionsReturned =>
          /\ DOMAIN class_positions = students_in_class
          /\ \A st \in students_in_class :
                class_positions[st] =
                    1 + Cardinality({o \in students_in_class : MeanGreater(RowsOf(o), RowsOf(st))})
          /\ \A a, b \in students_in_class :
                (RowsOf(a) # {} /\ SumOfTotals(RowsOf(a)) < 0 /\ RowsOf(b) = {})
                    => class_positions[a] > class_positions[b]

\* Reached: A, with the components -50.00 and 75.00 in Math and -50.00 and 0 in
\* English, has a negative mean and is placed after C, who has no rows; B,
\* with 75.00 and 75.00, is first in Math and in the class.
C14_Witness ==
    /\ SubjectPositionsReturned
    /\ ClassPositionsReturned
    /\ \E s \in scores_queryset : s.student = "A" /\ s.subject = "Math"
                                  /\ s.class_score = -5000 /\ s.exam_score = 7500
    /\ Cardinality(RowsOf("A")) = 2
    /\ RowsOf("C") = {}
    /\ \E s \in RowsOf("B") : RowTotal(s) = 15000
    /\ subject_positions[<<"B", "Math">>] = 1
    /\ class_positions["B"] = 1
    /\ class_positions["C"] = 2
    /\ class_positions["A"] = 3

\* C17: for a cohort of one student with one Score row, the row's position in
\* its subject is 1 and the student's position in the class is 1, whatever the
\* component scores.
C17_SingleEntityRankedFirst ==
    /\ (SubjectPositionsReturned /\ Cardinality(scores_queryset) = 1) =>
          \A s \in scores_queryset : subject_positions = (<<s.student, s.subject>> :> 1)
    /\ (ClassPositionsReturned /\ Cardinality(students_in_class) = 1) =>
          \A st \in students_in_class :
              Cardinality(RowsOf(st)) = 1 => class_positions = (st :> 1)

\* Reached: D, alone in Grade 2A with one row of -1.00 and -1.00, is first in
\* Math and first in the class.
C17_Witness ==
    /\ SubjectPositionsReturned
    /\ ClassPositionsReturned
    /\ students_in_class = {"D"}
    /\ \E s \in scores_queryset : scores_queryset = {s} /\ s.student = "D"
                                  /\ s.class_score = -100 /\ s.exam_score = -100
    /\ subject_positions[<<"D", "Math">>] = 1
    /\ class_positions["D"] = 1

----------------------------------------------------------------------------
(* Properties of repeated and reordered ranking calls.                     *)

\* C15 (under SpecRepeat): ranking is repeatable: a second call of
\* calculate_subject_positions, or of calculate_class_positions, on the same
\* unchanged Score rows and roster returns the map the first call returned.
C15_RepeatedCallsAgree ==
    [][/\ (SubjectPositionsReturned /\ scores_queryset' = scores_queryset)
             => subject_positions' = subject_positions
       /\ (ClassPositionsReturned /\ students_in_class' = students_in_class)
             => class_positions' = class_positions]_vars

\* Reached: calculate_subject_positions was called twice, and nothing else, on
\* six rows with tied totals that the database may return in several orders.
C15_Witness ==
    /\ ops = 2
    /\ response.returned = {"calculate_subject_positions"}
    /\ Cardinality(scores_queryset) = 6
    /\ Cardinality(db_orders(scores_queryset)) > 1
    /\ Cardinality({subject_positions[k] : k \in DOMAIN subject_positions}) > 1

\* C16 (under SpecRank): without input the functions return an empty map:
\* calculate_subject_positions for a queryset without rows,
\* calculate_class_positions for an empty roster.
C16_EmptyInputEmptyMap ==
    /\ (SubjectPositionsReturned /\ scores_queryset = {}) => subject_positions = <<>>
    /\ (ClassPositionsReturned /\ students_in_class = {}) =>
          /\ class_positions = <<>>
          /\ student_averages = <<>>

\* Reached: both functions returned for a year and term without rows and
\* without enrolled students.
C16_Witness ==
    /\ SubjectPositionsReturned
    /\ ClassPositionsReturned
    /\ scores_queryset = {}
    /\ students_in_class = {}
    /\ subject_positions = <<>>
    /\ class_positions = <<>>
    /\ scores # {}

\* Every way to put the rows of each subject into a sequence
RECURSIVE AnyOrders(_, _)
AnyOrders(queryset, subject_ids) ==
    IF subject_ids = {} THEN {<<>>}
    ELSE LET sid == CHOOSE s \in subject_ids : TRUE
         IN  {(sid :> order) @@ others :
                 order \in any_order(subject_scores_of(queryset, sid)),
                 others \in AnyOrders(queryset, subject_ids \ {sid})}

\* C19 (under SpecRank): the maps do not depend on the order of the input:
\* calculate_subject_positions returns the same map for every order of the
\* rows it sorts (the order the preliminary ORDER BY gives or any other), and
\* calculate_class_positions the same map for every order of the roster; the
\* order among equal values changes no rank.
C19_OrderIndependent ==
    /\ SubjectPositionsReturned =>
          \A order \in AnyOrders(scores_queryset, subject_ids_of(scores_queryset)) :
              calculate_subject_positions(scores_queryset, order) = subject_positions
    /\ ClassPositionsReturned =>
          \A roster_order \in any_order(students_in_class) :
              calculate_class_positions(roster_order, request.academic_year, request.term)
                  = class_positions

\* Reached: six Math rows with the totals 90, 90, 90 and 70, 70, 70 and a
\* roster of three students with equal means were ranked: 1, 1, 1, 4, 4, 4 and
\* 1, 1, 1.
C19_Witness ==
    /\ SubjectPositionsReturned
    /\ ClassPositionsReturned
    /\ {<<r.student, r.subject>> : r \in scores_queryset}
          = {<<st, "Math">> : st \in {"A", "B", "C", "D", "E", "F"}}
    /\ students_in_class = {"A", "B", "C"}
    /\ \A st \in {"A", "B", "C"} :
          /\ subject_positions[<<st, "Math">>] = 1
          /\ class_positions[st] = 1
    /\ \A st \in {"D", "E", "F"} : subject_positions[<<st, "Math">>] = 4

----------------------------------------------------------------------------
(* Properties of requests without a current year or term, and of           *)
(* score_entry_view, checked under SpecViews.                              *)

NoCurrentYearOrTerm == current_academic_year = None \/ current_term = None

\* The request of the step names a student (grade level) that exists, where
\* its URL names one
NamesExistingObject ==
    /\ request'.view = "add_edit_report_card_remarks" =>
          \E st \in students : st.id = request'.student_id
    /\ request'.view = "class_score_entry_bulk" => request'.grade_level \in GradeLevels

\* C18 (as amended): without a current AcademicYear or Term, a GET or POST to
\* score_entry_view, class_score_entry_bulk, add_edit_report_card_remarks or
\* bulk_score_upload_view raises nothing and creates or changes no Score and
\* no ReportCardRemarks row; it is answered with a redirect to the dashboard,
\* except that class_score_entry_bulk and add_edit_report_card_remarks answer
\* 404 when the grade level or student of the URL does not exist.
C18_NoCurrentTermRedirects ==
    [][NoCurrentYearOrTerm =>
          /\ scores' = scores
          /\ report_card_remarks' = report_card_remarks
          /\ IF NamesExistingObject THEN response'.status = "redirect dashboard"
             ELSE response'.status = "404"]_vars

\* Reached: the administrator posted valid marks for Grade 1A to
\* class_score_entry_bulk while a year but no term was current, and was sent
\* to the dashboard with no row written.
C18_Witness ==
    /\ current_academic_year # None
    /\ current_term = None
    /\ request.view = "class_score_entry_bulk"
    /\ request.user = "admin"
    /\ request.method = "POST"
    /\ request.grade_level = "Grade 1A"
    /\ \E pair \in DOMAIN request.posted : request.posted[pair] = {Marks(5000, 2500)}
    /\ response.status = "redirect dashboard"
    /\ scores = {}

\* C18 as stated: without a current AcademicYear or Term every request to the
\* four views is answered with a redirect to the dashboard and writes nothing.
C18_AlwaysRedirectsToDashboard ==
    [][NoCurrentYearOrTerm =>
          /\ scores' = scores
          /\ report_card_remarks' = report_card_remarks
          /\ response'.status = "redirect dashboard"]_vars

\* C20: score_entry_view adds or updates: a POST by the administrator or a
\* class teacher with an existing student and subject and components within
\* [0, 50] is answered with the success redirect and leaves exactly one row
\* for (student, subject, current term, current year), holding the submitted
\* components: the row that was there, updated, or a new one.
C20_ScoreEntryAddsOrUpdates ==
    [][(/\ request'.view = "score_entry_view"
        /\ request'.method = "POST"
        /\ request'.user \in {"admin", "class_teacher"}
        /\ ~NoCurrentYearOrTerm
        /\ \E st \in students : st.id = request'.data.student
        /\ valid_score(request'.data.class_score)
        /\ valid_score(request'.data.exam_score))
       => LET data == request'.data
              before == rows_with_key(scores, data.student, data.subject, current_term,
                                      current_academic_year)
              after == rows_with_key(scores', data.student, data.subject, current_term,
                                     current_academic_year)
          IN  /\ response'.status = "redirect score_entry"
              /\ Cardinality(after) = 1
              /\ \A s \in after : /\ s.class_score = data.class_score
                                  /\ s.exam_score = data.exam_score
                                  /\ before # {} => \E b \in before : b.id = s.id]_vars

----------------------------------------------------------------------------
(* Properties of score_entry_view for teachers, checked under SpecViews    *)
(* and Spec.                                                               *)

\* C21 as stated: a valid POST to score_entry_view by a subject teacher, for a
\* subject they teach, saves the Score with the current term and academic
\* year and is then answered with the redirect to score_entry; no error is
\* raised after the row was saved.
C21_SubjectTeacherPostRedirects ==
    [][(/\ request'.view = "score_entry_view"
        /\ request'.method = "POST"
        /\ request'.user = "subject_teacher"
        /\ ~NoCurrentYearOrTerm
        /\ request'.data.subject \in subjects_taught["subject_teacher"]
        /\ ScoreForm_is_valid(request'.data)
        /\ rows_with_key(scores, request'.data.student, request'.data.subject, current_term,
                         current_academic_year) = {})
       => /\ \E s \in scores' \ scores :
                /\ s.student = request'.data.student
                /\ s.subject = request'.data.subject
                /\ s.term = current_term
                /\ s.academic_year = current_academic_year
          /\ response'.status = "redirect score_entry"]_vars

\* C22: a user who is only a subject teacher never creates or changes a Score
\* of a subject outside their subjects_taught: after any request of theirs to
\* score_entry_view or bulk_score_upload_view, in any sequence of requests,
\* the rows of every other subject are the rows there were before.
C22_SubjectTeacherWritesOnlyTaughtSubjects ==
    [][(/\ request'.user = "subject_teacher"
        /\ request'.view \in {"score_entry_view", "bulk_score_upload_view"})
       => {s \in scores' : s.subject \notin {"Math"}}
          = {s \in scores : s.subject \notin {"Math"}}]_vars

\* Reached: the subject teacher of Math submitted a valid form for English to
\* score_entry_view and was refused, with no English row in the table.
C22_Witness ==
    /\ request.view = "score_entry_view"
    /\ request.user = "subject_teacher"
    /\ request.method = "POST"
    /\ response.status = "not authorized"
    /\ \A s \in scores : s.subject = "Math"

----------------------------------------------------------------------------
(* Properties of the counters of bulk_score_upload_view, checked under     *)
(* SpecViews.                                                              *)

\* A line whose numbers parse and whose student_id and subject name exist
RowParsesAndExists(row) ==
    /\ row.columns >= 4
    /\ row.parses
    /\ \E st \in students : st.id = row.student_id
    /\ row.subject_name \in Subjects

\* The upload of the step applied exactly the lines of the set: each key of
\* such a line has one row with the marks of its last line, created_count
\* counts the lines whose key had no row when the line was processed and
\* updated_count the other lines
UploadApplied(lines) ==
    LET rows == request'.file.rows
        same_key(i, j) == /\ rows[i].student_id = rows[j].student_id
                          /\ rows[i].subject_name = rows[j].subject_name
        stored(i) == rows_with_key(scores, rows[i].student_id, rows[i].subject_name,
                                   request'.term, request'.academic_year)
        creates == {i \in lines : stored(i) = {} /\ ~\E j \in lines : j < i /\ same_key(i, j)}
    IN  /\ response'.created_count = Cardinality(creates)
        /\ response'.updated_count = Cardinality(lines \ creates)
        /\ response'.created_count + response'.updated_count = Cardinality(lines)
        /\ \A i \in lines :
              LET after == rows_with_key(scores', rows[i].student_id, rows[i].subject_name,
                                         request'.term, request'.academic_year)
                  last == CHOOSE j \in lines : /\ same_key(i, j)
                                               /\ \A k \in lines : same_key(i, k) => k <= j
              IN  /\ Cardinality(after) = 1
                  /\ \A s \in after : /\ s.class_score = rows[last].class_score
                                      /\ s.exam_score = rows[last].exam_score

----------------------------------------------------------------------------
(* Properties of class_score_entry_bulk, checked under SpecViews.          *)

\* The step is a request to class_score_entry_bulk for a grade level that
\* exists, by the administrator or the class teacher of the grade level,
\* while a current year and term are set
AuthorizedBulkEntry ==
    /\ request'.view = "class_score_entry_bulk"
    /\ request'.grade_level \in GradeLevels
    /\ ~NoCurrentYearOrTerm
    /\ \/ request'.user = "admin"
       \/ request'.user = "class_teacher" /\ request'.grade_level = "Grade 1A"

\* The (student, subject) pairs of the grade level of the step: its students
\* enrolled in the current academic year, the subjects taught in it
PairsOfClass ==
    {<<st.id, subject>> :
        st \in {x \in students : /\ x.grade_level = request'.grade_level
                                 /\ x.current_academic_year = current_academic_year},
        subject \in {x \in Subjects : request'.grade_level \in subject_grade_levels[x]}}

\* The marks submitted for a pair whose components both lie in [0, 50]
ValidPosted(pair) ==
    IF request'.method = "POST" /\ pair \in DOMAIN request'.posted
    THEN {m \in request'.posted[pair] :
            /\ m.class_score \in 0..5000
            /\ m.exam_score \in 0..5000}
    ELSE {}

C25_BulkPostSavesPairsIndependently ==
    [][(AuthorizedBulkEntry /\ request'.method = "POST") =>
          /\ response'.status = "redirect class_score_entry_bulk"
          /\ \A pair \in PairsOfClass :
                LET before == rows_with_key(scores, pair[1], pair[2], current_term,
                                            current_academic_year)
                    after == rows_with_key(scores', pair[1], pair[2], current_term,
                                           current_academic_year)
                IN  /\ after # {}
                    /\ \A s \in after :
                          IF ValidPosted(pair) # {}
                          THEN [class_score |-> s.class_score, exam_score |-> s.exam_score]
                                  \in ValidPosted(pair)
                          ELSE IF before # {} THEN s \in before
                          ELSE s.class_score = 0 /\ s.exam_score = 0
          /\ \A s \in scores :
                (\/ <<s.student, s.subject>> \notin PairsOfClass
                 \/ s.term # current_term
                 \/ s.academic_year # current_academic_year) => s \in scores']_vars

\* Reached: the administrator posted, for Grade 1A, a class_score of 50.01
\* for (A, Math), nothing for (A, English) and valid marks for (B, Math):
\* A's Math row keeps 10.00 and 10.00, B's Math row holds the posted marks.
C25_Witness ==
    /\ request.view = "class_score_entry_bulk"
    /\ request.user = "admin"
    /\ request.method = "POST"
    /\ request.grade_level = "Grade 1A"
    /\ response.status = "redirect class_score_entry_bulk"
    /\ request.posted[<<"A", "English">>] = {}
    /\ request.posted[<<"A", "Math">>] = {Marks(5001, 2500)}
    /\ request.posted[<<"B", "Math">>] = {Marks(5000, 2500)}
    /\ Score(1, "A", "Math", "T2", "2024/2025", 1000, 1000) \in scores
    /\ \E s \in scores : /\ s.student = "B" /\ s.subject = "Math"
                         /\ s.class_score = 5000 /\ s.exam_score = 2500
    /\ \E s \in scores : /\ s.student = "A" /\ s.subject = "English"
                         /\ s.class_score = 0 /\ s.exam_score = 0

\* C26 as stated: a class teacher stores through score_entry_view only Scores
\* of students of their class_teacher_of grade level and of subjects taught
\* in it: every row a request of the class teacher of Grade 1A adds is for
\* such a student and subject.
C26_ClassTeacherStoresOnlyOwnClass ==
    [][(/\ request'.view = "score_entry_view"
        /\ request'.user = "class_teacher")
       => \A s \in scores' \ scores :
             /\ \E st \in students : st.id = s.student /\ st.grade_level = "Grade 1A"
             /\ "Grade 1A" \in subject_grade_levels[s.subject]]_vars

----------------------------------------------------------------------------
(* Properties of the averages and cohorts of the report views, checked     *)
(* under SpecReport.                                                       *)

\* The rows a report view takes a student's average from: the class report
\* picks them out of all_scores_in_grade_term, the individual report queries
\* them by student, academic year and term
RowsAveraged(st) ==
    IF response.view = "generate_class_report_card"
    THEN {s \in scores_queryset : s.student = st}
    ELSE {s \in scores : /\ s.student = st
                         /\ s.academic_year = request.academic_year
                         /\ s.term = request.term}

\* C27: the average on a report card is the value the student was ranked by:
\* for every roster student of a report, the learners_average_score the view
\* computes (the sum of the student's totals divided by their number, or 0
\* without scores) equals, as an exact quotient, the value that
\* calculate_class_positions ranked the student by for the same term and
\* year, and the card shows that value to two places.
C27_ReportAverageIsRankingValue ==
    response.status = "pdf" =>
       \A st \in DOMAIN response.context \cap students_in_class :
          LET computed == learners_average_score(RowsAveraged(st))
              ranked_by == student_averages[st]
          IN  /\ computed.num * ranked_by.den = ranked_by.num * computed.den
              /\ RowsAveraged(st) = {} => ranked_by.num = 0
              /\ response.context[st].learners_average_score
                    = round_half_even(ranked_by.num, ranked_by.den)

\* Reached: a class report of Grade 1A in which B, with totals 80.00 and
\* 66.67, was ranked by 73.335 and is shown 73.34 (the even neighbour), and
\* A, without scores, was ranked by 0 and is shown 0.00.
C27_Witness ==
    /\ response.view = "generate_class_report_card"
    /\ response.status = "pdf"
    /\ request.grade_level = "Grade 1A"
    /\ request.academic_year = "2024/2025"
    /\ request.term = "T2"
    /\ student_averages["B"] = [num |-> 14667, den |-> 2]
    /\ response.context["B"].learners_average_score = 7334
    /\ student_averages["A"] = [num |-> 0, den |-> 1]
    /\ response.context["A"].learners_average_score = 0
    /\ class_positions["B"] = 1
    /\ class_positions["A"] = 2

\* The grade level a report ranks: the one requested, or the student's
ReportedGradeLevel ==
    IF response.view = "generate_class_report_card" THEN request.grade_level
    ELSE (CHOOSE st \in students : st.id = request.student_id).grade_level

\* The students of the reported grade level, whatever year they are enrolled in
StudentsOfGrade == {st.id : st \in {x \in students : x.grade_level = ReportedGradeLevel}}

\* Those of them enrolled in the requested academic year
EnrolledInYear ==
    {st.id : st \in {x \in students : /\ x.grade_level = ReportedGradeLevel
                                      /\ x.current_academic_year = request.academic_year}}

\* The rows of the requested term and year of the students of the grade level
RowsOfGrade ==
    {s \in scores : /\ s.student \in StudentsOfGrade
                    /\ s.academic_year = request.academic_year
                    /\ s.term = request.term}

\* C28: the two ranking axes of a report use different cohorts: every
\* student of the grade level with Scores for the term and year, enrolled in
\* the requested year or not, has a rank in each of their subjects and counts
\* against the others there (a rank is 1 + the number of rows of the subject
\* with a greater total); the overall map holds the students enrolled in the
\* requested year only, each ranked among those alone, and the individual
\* report of a student not enrolled in it shows position 'N/A'.
C28_RankingCohortsDiffer ==
    response.status = "pdf" =>
       /\ \A r \in RowsOfGrade :
             /\ <<r.student, r.subject>> \in DOMAIN subject_positions
             /\ subject_positions[<<r.student, r.subject>>] =
                   1 + Cardinality({x \in RowsOfGrade : /\ x.subject = r.subject
                                                        /\ RowTotal(x) > RowTotal(r)})
       /\ DOMAIN class_positions = EnrolledInYear
       /\ \A st \in EnrolledInYear :
             class_positions[st] =
                1 + Cardinality({x \in EnrolledInYear :
                                   student_averages[x].num * student_averages[st].den
                                      > student_averages[st].num * student_averages[x].den})
       /\ \A st \in DOMAIN response.context :
             /\ st \notin EnrolledInYear => response.context[st].position_in_class = "N/A"
             /\ \A subject \in DOMAIN response.context[st].subject_position :
                   response.context[st].subject_position[subject]
                      = subject_positions[<<st, subject>>]

\* Reached: the individual report of C for T2 of 2024/2025, C being of Grade
\* 1A but enrolled in 2023/2024: C is first in Math and A, with 90.00, second
\* behind C; the overall map holds A and B only, A first, and C's position
\* in class is 'N/A'.
C28_Witness ==
    /\ response.view = "generate_individual_report_card"
    /\ response.status = "pdf"
    /\ request.student_id = "C"
    /\ request.academic_year = "2024/2025"
    /\ request.term = "T2"
    /\ response.context["C"].position_in_class = "N/A"
    /\ response.context["C"].subject_position = [s \in {"Math"} |-> 1]
    /\ <<"A", "Math">> \in DOMAIN subject_positions
    /\ subject_positions[<<"A", "Math">>] = 2
    /\ DOMAIN class_positions = {"A", "B"}
    /\ class_positions["A"] = 1

====
